---- MODULE Spec2Model ----
(***************************************************************************)
(* State-machine model of the odds pipeline's deduplication and merge      *)
(* engine (src/src/storage/supabase_client.py, save_normalized_data) fed   *)
(* with Game graphs built the way the source adapters build them           *)
(* (src/src/normalization/normalizer.py) with ids derived by               *)
(* generate_canonical_id (src/src/utils/misc_utils.py).                    *)
(*                                                                         *)
(* Conventions.  A Python str is a sequence of one-character strings.      *)
(* Python None is NoneStr in a str-typed slot, NoTeam in a Team-typed      *)
(* slot and NoTime in a datetime-typed slot.  A datetime is a number of    *)
(* minutes after 2025-01-01T00:00Z; a Decimal price is a number of         *)
(* hundredths; a Decimal line is the str() of the Decimal.  A Python dict  *)
(* is a sequence of entries in insertion order.  Objects that the code     *)
(* shares by reference (Game, Market) live in the heap `games` and are     *)
(* referred to by their position in it.                                    *)
(***************************************************************************)
EXTENDS Integers, Sequences, FiniteSets, TLC

(***************************************************************************)
(* Bounds of the model.                                                    *)
(***************************************************************************)
\* Largest number of games in the list handed to save_normalized_data.
MaxGames == 2

(***************************************************************************)
(* Python values.                                                          *)
(***************************************************************************)
NoneStr == <<"None">>

NoTime == -1

NoTeam == [raw_name |-> NoneStr, canonical_name |-> NoneStr, team_id |-> NoneStr]

\* Code points in increasing order, for the characters the model uses.
CodeOrder ==
    << " ", "(", ")", "+", "-", ".",
       "0", "1", "2", "3", "4", "5", "6", "7", "8", "9",
       "A", "B", "C", "D", "E", "F", "G", "H", "I", "J", "K", "L", "M",
       "N", "O", "P", "Q", "R", "S", "T", "U", "V", "W", "X", "Y", "Z",
       "_",
       "a", "b", "c", "d", "e", "f", "g", "h", "i", "j", "k", "l", "m",
       "n", "o", "p", "q", "r", "s", "t", "u", "v", "w", "x", "y", "z" >>

Ord(c) == CHOOSE i \in 1..Len(CodeOrder) : CodeOrder[i] = c

IsUpper(c) == Ord("A") <= Ord(c) /\ Ord(c) <= Ord("Z")

IsDigit(c) == Ord("0") <= Ord(c) /\ Ord(c) <= Ord("9")

\* str.lower() on one character, then on a string.
LowerChar(c) == IF IsUpper(c) THEN CodeOrder[Ord(c) - Ord("A") + Ord("a")] ELSE c

Lower(s) == [i \in 1..Len(s) |-> LowerChar(s[i])]

\* str.strip(): leading and trailing blanks removed.
RECURSIVE LStrip(_)
LStrip(s) == IF s # <<>> /\ Head(s) = " " THEN LStrip(Tail(s)) ELSE s

RECURSIVE RStrip(_)
RStrip(s) ==
    IF s # <<>> /\ s[Len(s)] = " " THEN RStrip(SubSeq(s, 1, Len(s) - 1)) ELSE s

Strip(s) == RStrip(LStrip(s))

\* a < b on two str values: lexicographic by code point.
RECURSIVE StrLess(_, _)
StrLess(a, b) ==
    IF b = <<>> THEN FALSE
    ELSE IF a = <<>> THEN TRUE
    ELSE IF Head(a) = Head(b) THEN StrLess(Tail(a), Tail(b))
    ELSE Ord(Head(a)) < Ord(Head(b))

\* "_".join(parts)
RECURSIVE JoinUnderscore(_)
JoinUnderscore(parts) ==
    IF parts = <<>> THEN <<>>
    ELSE IF Len(parts) = 1 THEN parts[1]
    ELSE parts[1] \o <<"_">> \o JoinUnderscore(Tail(parts))

(***************************************************************************)
(* generate_canonical_id (misc_utils.py).                                  *)
(***************************************************************************)
\* The length above which the cleaned string is replaced by a digest.
MaxIdLen == 100

\* \w of the re module, on the model's characters.
IsLower(c) == Ord("a") <= Ord(c) /\ Ord(c) <= Ord("z")

IsWordChar(c) == IsLower(c) \/ IsUpper(c) \/ IsDigit(c) \/ c = "_"

ReplaceSpace(s) == [i \in 1..Len(s) |-> IF s[i] = " " THEN "_" ELSE s[i]]

\* hashlib.sha1(s).hexdigest()[:16]: sixteen hexadecimal digits that depend on
\* every character of s and on its position.  hashlib is a library; the
\* digits here come from four 16-bit weighted sums, not from SHA-1.
HexDigits ==
    << "0", "1", "2", "3", "4", "5", "6", "7", "8", "9", "a", "b", "c", "d", "e", "f" >>

\* The k-th sum over the characters lo..hi of s.
RECURSIVE Roll(_, _, _, _)
Roll(s, k, lo, hi) ==
    IF lo > hi THEN 0
    ELSE IF lo = hi THEN (Ord(s[lo]) + k) * (((lo * (k + 2)) % 251) + 1)
    ELSE LET mid == (lo + hi) \div 2
         IN  (Roll(s, k, lo, mid) + Roll(s, k, mid + 1, hi)) % 65536

Hex4(n) ==
    << HexDigits[((n \div 4096) % 16) + 1], HexDigits[((n \div 256) % 16) + 1],
       HexDigits[((n \div 16) % 16) + 1], HexDigits[(n % 16) + 1] >>

Sha1Hex16(s) ==
    Hex4(Roll(s, 1, 1, Len(s))) \o Hex4(Roll(s, 2, 1, Len(s)))
        \o Hex4(Roll(s, 3, 1, Len(s))) \o Hex4(Roll(s, 4, 1, Len(s)))

NonEmptyArg(a) == a # <<>> /\ a # NoneStr

\* An id function without the length limit.
generate_canonical_id_NoDigest(args) ==
    SelectSeq(ReplaceSpace(JoinUnderscore([i \in 1..Len(SelectSeq(args, NonEmptyArg)) |->
                                             Lower(SelectSeq(args, NonEmptyArg)[i])])),
              IsWordChar)

generate_canonical_id(args) ==
    LET combined    == JoinUnderscore([i \in 1..Len(SelectSeq(args, NonEmptyArg)) |->
                                           Lower(SelectSeq(args, NonEmptyArg)[i])])
        safe_string == SelectSeq(ReplaceSpace(combined), IsWordChar)
    IN  IF Len(safe_string) > MaxIdLen THEN Sha1Hex16(safe_string) ELSE safe_string

(***************************************************************************)
(* Enumerations (models/enums.py): a member is its name, Value its .value. *)
(***************************************************************************)
Value(member) ==
    CASE member = "NBA"         -> <<"N", "B", "A">>
      [] member = "NHL"         -> <<"N", "H", "L">>
      [] member = "MONEYLINE"   -> <<"M", "O", "N", "E", "Y", "L", "I", "N", "E">>
      [] member = "SPREAD"      -> <<"S", "P", "R", "E", "A", "D">>
      [] member = "TOTAL"       -> <<"T", "O", "T", "A", "L">>
      [] member = "PINNACLE"    -> <<"P", "I", "N", "N", "A", "C", "L", "E">>
      [] member = "CRAB_SPORTS" -> <<"C", "R", "A", "B", "_", "S", "P", "O", "R", "T", "S">>

(***************************************************************************)
(* The adapters' construction of a Game graph (normalizer.py).  Both       *)
(* adapters derive teams, game_id, market_id and Odds the same way.        *)
(***************************************************************************)
\* Normalizer.team_aliases, the entries for the teams of the model.
team_aliases ==
    << [alias |-> <<"l", "a", "k", "e", "r", "s">>,
        name  |-> <<"l", "o", "s", " ", "a", "n", "g", "e", "l", "e", "s", " ",
                    "l", "a", "k", "e", "r", "s">>],
       [alias |-> <<"l", "a", "l">>,
        name  |-> <<"l", "o", "s", " ", "a", "n", "g", "e", "l", "e", "s", " ",
                    "l", "a", "k", "e", "r", "s">>],
       [alias |-> <<"c", "e", "l", "t", "i", "c", "s">>,
        name  |-> <<"b", "o", "s", "t", "o", "n", " ", "c", "e", "l", "t", "i", "c", "s">>] >>

_get_canonical_team_name(raw_name) ==
    LET raw_name_clean == Strip(Lower(raw_name))
        hits == {j \in 1..Len(team_aliases) : team_aliases[j].alias = raw_name_clean}
    IN  IF hits = {} THEN raw_name_clean
        ELSE team_aliases[CHOOSE j \in hits : TRUE].name

MakeTeam(raw_name) ==
    [raw_name       |-> raw_name,
     canonical_name |-> _get_canonical_team_name(raw_name),
     team_id        |-> generate_canonical_id(<<raw_name>>)]

\* datetime.date(): the calendar day, counted from 2025-01-01.
MinutesPerDay == 24 * 60

DateOf(start_time) == start_time \div MinutesPerDay

\* A start time as a provider writes it: an ISO 8601 string with an offset,
\* here [iso, local, offset]: iso says whether fromisoformat accepts the
\* string, local is in minutes after 2025-01-01T00:00 on the clock of the
\* offset, and offset is in minutes east of UTC.
\* A parse that keeps the local clock.
_parse_datetime_Local(datetime_str) ==
    IF ~datetime_str.iso THEN NoTime ELSE datetime_str.local

\* _parse_datetime: fromisoformat, then astimezone(timezone.utc).
_parse_datetime(datetime_str) ==
    IF ~datetime_str.iso THEN NoTime ELSE datetime_str.local - datetime_str.offset

DigitChar(n) == CodeOrder[Ord("0") + n]

\* strftime('%Y%m%d'), for the days of January 2025.
Strftime_Ymd(start_time) ==
    LET dom == DateOf(start_time) + 1
    IN  <<"2", "0", "2", "5", "0", "1", DigitChar(dom \div 10), DigitChar(dom % 10)>>

MakeGameId(sport, league, away_team_id, home_team_id, start_time) ==
    generate_canonical_id(
        << Value(sport) \o <<"_">> \o Value(league) \o <<"_">> \o away_team_id
           \o <<"_", "a", "t", "_">> \o home_team_id \o <<"_">>
           \o Strftime_Ymd(start_time) >>)

\* bool(Decimal): a Decimal is falsy exactly when it is zero.
RECURSIVE DecimalIsZero(_)
DecimalIsZero(line) ==
    \/ line = <<>>
    \/ /\ Head(line) \in {"0", ".", "+", "-"}
       /\ DecimalIsZero(Tail(line))

\* market_line or 'base'
LineOrBase(line) ==
    IF line = NoneStr \/ DecimalIsZero(line) THEN <<"b", "a", "s", "e">> ELSE line

MakeMarketId(game_id, market_type, market_line) ==
    generate_canonical_id(
        << game_id \o <<"_">> \o Value(market_type) \o <<"_">> \o LineOrBase(market_line) >>)

MakeOdds(market_id, bookmaker, side, price, stamp) ==
    [market_id           |-> market_id,
     bookmaker           |-> bookmaker,
     side                |-> side,
     decimal_odds        |-> price,
     timestamp_collected |-> stamp]

\* raw_market: [market_type, line, outcomes], an outcome being [side, price, stamp]
\* with stamp the datetime.now() at which its Odds is built.
MakeMarket(game_id, bookmaker, raw_market) ==
    LET market_id == MakeMarketId(game_id, raw_market.market_type, raw_market.line)
    IN  [market_id   |-> market_id,
         game_id     |-> game_id,
         market_type |-> raw_market.market_type,
         period      |-> "FULL_GAME",
         line        |-> raw_market.line,
         odds        |-> [k \in 1..Len(raw_market.outcomes) |->
                             MakeOdds(market_id, bookmaker, raw_market.outcomes[k].side,
                                      raw_market.outcomes[k].price,
                                      raw_market.outcomes[k].stamp)]]

\* raw_event: [sport, league, home, away, start, bookmaker, markets].
MakeGame(raw_event) ==
    LET home_team == MakeTeam(raw_event.home)
        away_team == MakeTeam(raw_event.away)
        game_id   == MakeGameId(raw_event.sport, raw_event.league, away_team.team_id,
                                home_team.team_id, raw_event.start)
    IN  [game_id        |-> game_id,
         bookmaker      |-> raw_event.bookmaker,
         sport          |-> raw_event.sport,
         league         |-> raw_event.league,
         start_time_utc |-> raw_event.start,
         home_team      |-> home_team,
         away_team      |-> away_team,
         markets        |-> [m \in 1..Len(raw_event.markets) |->
                                MakeMarket(game_id, raw_event.bookmaker,
                                           raw_event.markets[m])]]

(***************************************************************************)
(* The inputs of the model: raw events as the two providers report them,   *)
(* normalised by MakeGame, and Game objects with a field left unset.       *)
(***************************************************************************)
Lakers == <<"L", "a", "k", "e", "r", "s">>

Celtics == <<"C", "e", "l", "t", "i", "c", "s">>

LAL == <<"L", "A", "L">>

\* A provider's upper-case spelling: another Team with the team_id "lakers".
LAKERS == <<"L", "A", "K", "E", "R", "S">>

\* 2025-01-01T19:00Z, 2025-01-01T19:05Z and 2025-01-02T19:00Z.
Start_Jan1_1900 == 19 * 60

Start_Jan1_1905 == 19 * 60 + 5

Start_Jan2_1900 == MinutesPerDay + 19 * 60

\* The fixture of 1 January as each orientation lists it.
Fixtures ==
    { [home |-> Lakers,  away |-> Celtics, start |-> Start_Jan1_1900],
      [home |-> Celtics, away |-> Lakers,  start |-> Start_Jan1_1905] }

Bookmakers == {"PINNACLE", "CRAB_SPORTS"}

\* The price a bookmaker quotes for a side at a collection time, in hundredths
\* (PINNACLE at time 1: home 1.91, away 1.95).
QuotedPrice(bookmaker, side, stamp) ==
    (IF side = "HOME" THEN 191 ELSE 195) + 2 * (stamp - 1)
        + (IF bookmaker = "CRAB_SPORTS" THEN 5 ELSE 0)

Outcome(bookmaker, side, stamp) ==
    [side |-> side, price |-> QuotedPrice(bookmaker, side, stamp), stamp |-> stamp]

\* The outcomes of one raw market: one provider lists both sides at time 1, or
\* the home side three times (times 1, 2, 1); the other both sides at time 2.
OutcomeLists(bookmaker) ==
    IF bookmaker = "PINNACLE"
    THEN { << Outcome(bookmaker, "HOME", 1), Outcome(bookmaker, "AWAY", 1) >>,
           << Outcome(bookmaker, "HOME", 1), Outcome(bookmaker, "HOME", 2),
              Outcome(bookmaker, "HOME", 1) >> }
    ELSE { << Outcome(bookmaker, "HOME", 2), Outcome(bookmaker, "AWAY", 2) >> }

SpreadLine == <<"-", "1", ".", "5">>

RawMoneyline(outcomes) ==
    [market_type |-> "MONEYLINE", line |-> NoneStr, outcomes |-> outcomes]

RawSpread(outcomes) ==
    [market_type |-> "SPREAD", line |-> SpreadLine, outcomes |-> outcomes]

RawMarketLists(outcomes) ==
    { << RawMoneyline(outcomes) >>,
      << RawSpread(outcomes) >>,
      << RawMoneyline(outcomes), RawSpread(outcomes) >> }

RawEvent(fixture, bookmaker, markets) ==
    [sport |-> "NBA", league |-> "NBA", home |-> fixture.home, away |-> fixture.away,
     start |-> fixture.start, bookmaker |-> bookmaker, markets |-> markets]

RawEvents ==
    UNION { UNION { { RawEvent(f, b, ms) : f \in Fixtures, ms \in RawMarketLists(o) }
                    : o \in OutcomeLists(b) }
            : b \in Bookmakers }

\* The first fixture reported under the alias "LAL" and under the spelling
\* "LAKERS", and the return fixture of 2 January.
OtherEvents ==
    { RawEvent([home |-> LAL, away |-> Celtics, start |-> Start_Jan1_1900], "CRAB_SPORTS",
               << RawSpread(<< Outcome("CRAB_SPORTS", "HOME", 2),
                               Outcome("CRAB_SPORTS", "AWAY", 2) >>) >>),
      RawEvent([home |-> LAKERS, away |-> Celtics, start |-> Start_Jan1_1900], "CRAB_SPORTS",
               << RawMoneyline(<< Outcome("CRAB_SPORTS", "HOME", 2),
                                  Outcome("CRAB_SPORTS", "AWAY", 2) >>) >>),
      RawEvent([home |-> Lakers, away |-> Celtics, start |-> Start_Jan2_1900], "PINNACLE",
               << RawMoneyline(<< Outcome("PINNACLE", "HOME", 1),
                                  Outcome("PINNACLE", "AWAY", 1) >>) >>),
      RawEvent([home |-> Lakers, away |-> Celtics, start |-> Start_Jan2_1900],
               "CRAB_SPORTS",
               << RawMoneyline(<< Outcome("CRAB_SPORTS", "HOME", 2),
                                  Outcome("CRAB_SPORTS", "AWAY", 2) >>) >>) }

AdapterGames == { MakeGame(e) : e \in RawEvents \cup OtherEvents }

BaseGame ==
    MakeGame(RawEvent([home |-> Lakers, away |-> Celtics, start |-> Start_Jan1_1900],
                      "PINNACLE",
                      << RawMoneyline(<< Outcome("PINNACLE", "HOME", 1),
                                         Outcome("PINNACLE", "AWAY", 1) >>) >>))

\* Game objects no adapter builds: a team or a start time left unset (what
\* get_fuzzy_game_key tests for), a canonical name left at its default None,
\* and a market that names another game.
UnsetFieldGames ==
    { [BaseGame EXCEPT !.home_team = NoTeam],
      [BaseGame EXCEPT !.away_team = NoTeam],
      [BaseGame EXCEPT !.start_time_utc = NoTime],
      [BaseGame EXCEPT !.home_team.canonical_name = NoneStr],
      [BaseGame EXCEPT !.markets[1].game_id = <<"o", "t", "h", "e", "r">>] }

InputGames == AdapterGames \cup UnsetFieldGames

InputLists == UNION { [1..n -> InputGames] : n \in 0..MaxGames }

(***************************************************************************)
(* State of one call of save_normalized_data (supabase_client.py).         *)
(***************************************************************************)
VARIABLES
    games,                  \* normalized_games: the Game objects, in list order
    pc,                     \* where the call stands
    idx,                    \* position of the for loop in normalized_games
    canonical_games,        \* dict fuzzy key -> position of the Game in games
    all_teams,              \* dict team_id -> Team
    all_markets,            \* dict market_id -> <<game position, market position>>
    all_odds_raw,           \* list of Odds
    processed_market_ids_in_canonical,
    merged_market_count,
    discarded_game_count,
    games_to_save,          \* list of positions in games
    unique_latest_odds,     \* list of Odds
    upserts,                \* the save_* calls made: [table, ok, sent]
    result,                 \* the value returned: "none" until the call returns
    games_at_call,          \* normalized_games as the caller passed it
    run,                    \* 1 for the call on the input, 2 for a call on its output
    first_run,              \* what call 1 produced, kept for the comparison in call 2
    client,                 \* _async_supabase_client is set (initialize_supabase worked)
    id_pc,                  \* where a call of an id function stands ("idle": no call)
    id_args,                \* the arguments of the call
    id_out,                 \* what the call returned
    raw_data_by_book,       \* normalize's argument: dict bookmaker -> raw documents
    book_idx,               \* position of normalize's for loop in the dict's items
    all_normalized_games,   \* normalize's list of Game objects
    norm_pc,                \* where main stands with normalize ("idle": not called)
    norm_errors,            \* the bookmakers whose except branch has run
    cycle_pc,               \* where main stands with the scrape cycle ("idle": none)
    tasks,                  \* the run_scraper coroutines of the gather, in list order
    all_raw_results         \* run_scrape_cycle's dict bookmaker -> raw documents

vars ==
    << games, pc, idx, canonical_games, all_teams, all_markets, all_odds_raw,
       processed_market_ids_in_canonical, merged_market_count, discarded_game_count,
       games_to_save, unique_latest_odds, upserts, result, games_at_call, run,
       first_run, client, id_pc, id_args, id_out, raw_data_by_book, book_idx,
       all_normalized_games, norm_pc, norm_errors, cycle_pc, tasks, all_raw_results >>

\* The state of the calls of the id functions.
id_vars == << id_pc, id_args, id_out >>

\* The state of a call of Normalizer.normalize.
norm_vars == << raw_data_by_book, book_idx, all_normalized_games, norm_pc, norm_errors >>

\* normalize has not been called.
NormalizeIdle ==
    /\ raw_data_by_book = <<>>
    /\ book_idx = 1
    /\ all_normalized_games = <<>>
    /\ norm_pc = "idle"
    /\ norm_errors = <<>>

\* The state of a scrape cycle.
scrape_vars == << cycle_pc, tasks, all_raw_results >>

\* No scrape cycle is under way.
ScrapeIdle ==
    /\ cycle_pc = "idle"
    /\ tasks = <<>>
    /\ all_raw_results = <<>>

caller == << games_at_call, run, first_run, client, id_vars, norm_vars, scrape_vars >>

\* A dict as a sequence of [key, val] in insertion order.
HasKey(dict, key) == \E j \in 1..Len(dict) : dict[j].key = key

Lookup(dict, key) == dict[CHOOSE j \in 1..Len(dict) : dict[j].key = key].val

Put(dict, key, val) ==
    IF HasKey(dict, key)
    THEN [j \in 1..Len(dict) |-> IF dict[j].key = key THEN [key |-> key, val |-> val]
                                 ELSE dict[j]]
    ELSE Append(dict, [key |-> key, val |-> val])

Values(dict) == [j \in 1..Len(dict) |-> dict[j].val]

\* The pair as given, home first: a key built without the sort.
SortedPair_Unsorted(a, b) == <<a, b>>

\* sorted((a, b)) of two str values.
SortedPair(a, b) == IF StrLess(b, a) THEN <<b, a>> ELSE <<a, b>>

\* get_fuzzy_game_key returns None (the empty tuple here, falsy like None) ...
FuzzyKeyMissing(game) ==
    game.home_team = NoTeam \/ game.away_team = NoTeam \/ game.start_time_utc = NoTime

\* ... or sorted() raises TypeError comparing None with a str or with None ...
FuzzyKeyRaises(game) ==
    /\ ~FuzzyKeyMissing(game)
    /\ (game.home_team.canonical_name = NoneStr \/ game.away_team.canonical_name = NoneStr)

\* A key that leaves the date out.
get_fuzzy_game_key_NoDate(game) ==
    IF FuzzyKeyMissing(game) THEN <<>>
    ELSE << Value(game.sport), Value(game.league),
            SortedPair(game.home_team.canonical_name, game.away_team.canonical_name) >>

\* ... or it returns the key.
get_fuzzy_game_key(game) ==
    IF FuzzyKeyMissing(game) THEN <<>>
    ELSE << Value(game.sport), Value(game.league),
            SortedPair(game.home_team.canonical_name, game.away_team.canonical_name),
            DateOf(game.start_time_utc) >>

\* A collection in which a later Team replaces the one stored under its id.
CollectTeam_LastWins(teams, team) ==
    IF team = NoTeam THEN teams
    ELSE IF ~HasKey(teams, team.team_id) THEN Put(teams, team.team_id, team)
    ELSE [j \in 1..Len(teams) |->
            IF teams[j].key = team.team_id THEN [key |-> team.team_id, val |-> team]
            ELSE teams[j]]

\* "Always collect teams": the two ifs at the head of the loop body.
CollectTeam(teams, team) ==
    IF team # NoTeam /\ ~HasKey(teams, team.team_id) THEN Put(teams, team.team_id, team)
    ELSE teams

CollectTeams(teams, game) == CollectTeam(CollectTeam(teams, game.home_team), game.away_team)

\* The part of the state the loops over a game's markets read and write.
MarketState ==
    [games |-> games, all_markets |-> all_markets,
     processed |-> processed_market_ids_in_canonical,
     all_odds_raw |-> all_odds_raw, merged |-> merged_market_count]

\* A loop body that collects a market's odds without storing the market.
CollectMarket_OddsOnly(st, gi, mi) ==
    LET market == st.games[gi].markets[mi]
    IN  IF market.market_id \notin st.processed
        THEN [st EXCEPT !.all_odds_raw = @ \o market.odds,
                        !.processed = @ \cup {market.market_id}]
        ELSE st

\* Body of "for market in game.markets" for a canonical game.
CollectMarket(st, gi, mi) ==
    LET market == st.games[gi].markets[mi]
    IN  IF ~HasKey(st.all_markets, market.market_id)
        THEN [st EXCEPT !.all_markets = Put(@, market.market_id, <<gi, mi>>),
                        !.processed = @ \cup {market.market_id},
                        !.all_odds_raw = @ \o market.odds]
        ELSE IF market.market_id \notin st.processed
        THEN [st EXCEPT !.all_odds_raw = @ \o market.odds,
                        !.processed = @ \cup {market.market_id}]
        ELSE st

RECURSIVE CollectMarkets(_, _, _)
CollectMarkets(st, gi, mi) ==
    IF mi > Len(st.games[gi].markets) THEN st
    ELSE CollectMarkets(CollectMarket(st, gi, mi), gi, mi + 1)

\* A merge that collects the duplicate's market without rewriting its game_id.
MergeMarket_NoReparent(st, gi, mi, canonical_game_id) ==
    LET market_to_merge == st.games[gi].markets[mi]
    IN  IF ~HasKey(st.all_markets, market_to_merge.market_id)
        THEN [st EXCEPT !.all_markets = Put(@, market_to_merge.market_id, <<gi, mi>>),
                        !.processed = @ \cup {market_to_merge.market_id},
                        !.all_odds_raw = @ \o market_to_merge.odds,
                        !.merged = @ + 1]
        ELSE st

\* Body of "for market_to_merge in game.markets" for a duplicate game.
MergeMarket(st, gi, mi, canonical_game_id) ==
    LET st1 == [st EXCEPT !.games[gi].markets[mi].game_id = canonical_game_id]
        market_to_merge == st1.games[gi].markets[mi]
    IN  IF ~HasKey(st1.all_markets, market_to_merge.market_id)
        THEN [st1 EXCEPT !.all_markets = Put(@, market_to_merge.market_id, <<gi, mi>>),
                         !.processed = @ \cup {market_to_merge.market_id},
                         !.all_odds_raw = @ \o market_to_merge.odds,
                         !.merged = @ + 1]
        ELSE IF market_to_merge.market_id \notin st1.processed
        THEN [st1 EXCEPT !.all_odds_raw = @ \o market_to_merge.odds,
                         !.processed = @ \cup {market_to_merge.market_id},
                         !.merged = @ + 1]
        ELSE st1

RECURSIVE MergeMarkets(_, _, _, _)
MergeMarkets(st, gi, mi, canonical_game_id) ==
    IF mi > Len(st.games[gi].markets) THEN st
    ELSE MergeMarkets(MergeMarket(st, gi, mi, canonical_game_id), gi, mi + 1,
                      canonical_game_id)

Init ==
    /\ games \in InputLists
    /\ pc = "loop"
    /\ idx = 1
    /\ canonical_games = <<>>
    /\ all_teams = <<>>
    /\ all_markets = <<>>
    /\ all_odds_raw = <<>>
    /\ processed_market_ids_in_canonical = {}
    /\ merged_market_count = 0
    /\ discarded_game_count = 0
    /\ games_to_save = <<>>
    /\ unique_latest_odds = <<>>
    /\ upserts = <<>>
    /\ result = "none"
    /\ games_at_call = games
    /\ run = 1
    /\ first_run = [games |-> {}, markets |-> {}, odds |-> {}]
    /\ client \in BOOLEAN
    /\ id_pc = "idle"
    /\ id_args = <<>>
    /\ id_out = <<>>
    /\ NormalizeIdle
    /\ ScrapeIdle

\* if not normalized_games: return True
ReturnEmpty ==
    /\ pc = "loop"
    /\ games = <<>>
    /\ pc' = "done"
    /\ result' = "True"
    /\ UNCHANGED << games, idx, canonical_games, all_teams, all_markets, all_odds_raw,
                    processed_market_ids_in_canonical, merged_market_count,
                    discarded_game_count, games_to_save, unique_latest_odds, upserts, caller >>

InLoop == pc = "loop" /\ idx <= Len(games)

\* One pass of the loop for a game without a fuzzy key: counted and skipped.
SkipGame ==
    /\ InLoop
    /\ ~FuzzyKeyRaises(games[idx])
    /\ get_fuzzy_game_key(games[idx]) = <<>>
    /\ all_teams' = CollectTeams(all_teams, games[idx])
    /\ discarded_game_count' = discarded_game_count + 1
    /\ idx' = idx + 1
    /\ UNCHANGED << games, pc, canonical_games, all_markets, all_odds_raw,
                    processed_market_ids_in_canonical, merged_market_count,
                    games_to_save, unique_latest_odds, upserts, result, caller >>

\* One pass of the loop in which get_fuzzy_game_key raises: the TypeError
\* leaves save_normalized_data, which catches nothing.
KeyRaises ==
    /\ InLoop
    /\ FuzzyKeyRaises(games[idx])
    /\ all_teams' = CollectTeams(all_teams, games[idx])
    /\ pc' = "raised"
    /\ UNCHANGED << games, idx, canonical_games, all_markets, all_odds_raw,
                    processed_market_ids_in_canonical, merged_market_count,
                    discarded_game_count, games_to_save, unique_latest_odds, upserts,
                    result, caller >>

\* One pass of the loop for the first game seen under its fuzzy key.
CanonicalGame ==
    /\ InLoop
    /\ ~FuzzyKeyRaises(games[idx])
    /\ LET fuzzy_key == get_fuzzy_game_key(games[idx])
           st == CollectMarkets(MarketState, idx, 1)
       IN  /\ fuzzy_key # <<>>
           /\ ~HasKey(canonical_games, fuzzy_key)
           /\ canonical_games' = Put(canonical_games, fuzzy_key, idx)
           /\ all_markets' = st.all_markets
           /\ processed_market_ids_in_canonical' = st.processed
           /\ all_odds_raw' = st.all_odds_raw
    /\ all_teams' = CollectTeams(all_teams, games[idx])
    /\ idx' = idx + 1
    /\ UNCHANGED << games, pc, merged_market_count, discarded_game_count, games_to_save,
                    unique_latest_odds, upserts, result, caller >>

\* A duplicate that is counted and dropped with its markets.
DuplicateGame_Discard ==
    /\ InLoop
    /\ ~FuzzyKeyRaises(games[idx])
    /\ get_fuzzy_game_key(games[idx]) # <<>>
    /\ HasKey(canonical_games, get_fuzzy_game_key(games[idx]))
    /\ all_teams' = CollectTeams(all_teams, games[idx])
    /\ discarded_game_count' = discarded_game_count + 1
    /\ idx' = idx + 1
    /\ UNCHANGED << games, pc, canonical_games, all_markets, all_odds_raw,
                    processed_market_ids_in_canonical, merged_market_count,
                    games_to_save, unique_latest_odds, upserts, result, caller >>

\* A merge that also appends the duplicate's markets to the canonical game.
DuplicateGame_Repopulate ==
    /\ InLoop
    /\ ~FuzzyKeyRaises(games[idx])
    /\ LET fuzzy_key == get_fuzzy_game_key(games[idx])
       IN  /\ fuzzy_key # <<>>
           /\ HasKey(canonical_games, fuzzy_key)
           /\ LET canonical == Lookup(canonical_games, fuzzy_key)
                  st == MergeMarkets(MarketState, idx, 1, games[canonical].game_id)
              IN  /\ games' = [st.games EXCEPT ![canonical].markets = @ \o st.games[idx].markets]
                  /\ all_markets' = st.all_markets
                  /\ processed_market_ids_in_canonical' = st.processed
                  /\ all_odds_raw' = st.all_odds_raw
                  /\ merged_market_count' = st.merged
    /\ all_teams' = CollectTeams(all_teams, games[idx])
    /\ discarded_game_count' = discarded_game_count + 1
    /\ idx' = idx + 1
    /\ UNCHANGED << pc, canonical_games, games_to_save, unique_latest_odds, upserts,
                    result, caller >>

\* One pass of the loop for a game whose fuzzy key is already canonical.
DuplicateGame ==
    /\ InLoop
    /\ ~FuzzyKeyRaises(games[idx])
    /\ LET fuzzy_key == get_fuzzy_game_key(games[idx])
       IN  /\ fuzzy_key # <<>>
           /\ HasKey(canonical_games, fuzzy_key)
           /\ LET canonical_game == games[Lookup(canonical_games, fuzzy_key)]
                  st == MergeMarkets(MarketState, idx, 1, canonical_game.game_id)
              IN  /\ games' = st.games
                  /\ all_markets' = st.all_markets
                  /\ processed_market_ids_in_canonical' = st.processed
                  /\ all_odds_raw' = st.all_odds_raw
                  /\ merged_market_count' = st.merged
    /\ all_teams' = CollectTeams(all_teams, games[idx])
    /\ discarded_game_count' = discarded_game_count + 1
    /\ idx' = idx + 1
    /\ UNCHANGED << pc, canonical_games, games_to_save, unique_latest_odds, upserts,
                    result, caller >>

\* key = (odds_item.market_id, odds_item.bookmaker, odds_item.side)
OddsKey(odds_item) == << odds_item.market_id, odds_item.bookmaker, odds_item.side >>

\* odds_item.timestamp_collected > latest_odds_map[key].timestamp_collected
CollectedLater(odds_item, kept) == odds_item.timestamp_collected > kept.timestamp_collected

\* A filter that keeps every observation it is given.
FilterStep_Append(latest_odds_map, odds_item) ==
    Append(latest_odds_map, [key |-> OddsKey(odds_item), val |-> odds_item])

\* Body of "for odds_item in all_odds_raw".
FilterStep(latest_odds_map, odds_item) ==
    LET key == OddsKey(odds_item)
    IN  IF \/ ~HasKey(latest_odds_map, key)
           \/ CollectedLater(odds_item, Lookup(latest_odds_map, key))
        THEN Put(latest_odds_map, key, odds_item)
        ELSE latest_odds_map

RECURSIVE FilterLatest(_, _)
FilterLatest(latest_odds_map, odds_list) ==
    IF odds_list = <<>> THEN latest_odds_map
    ELSE FilterLatest(FilterStep(latest_odds_map, Head(odds_list)), Tail(odds_list))

\* After the loop: games_to_save and the latest odds per key.
FilterOdds ==
    /\ pc = "loop"
    /\ games # <<>>
    /\ idx > Len(games)
    /\ games_to_save' = Values(canonical_games)
    /\ unique_latest_odds' = Values(FilterLatest(<<>>, all_odds_raw))
    /\ pc' = "save_teams"
    /\ UNCHANGED << games, idx, canonical_games, all_teams, all_markets, all_odds_raw,
                    processed_market_ids_in_canonical, merged_market_count,
                    discarded_game_count, upserts, result, caller >>

\* A save that goes on to the next table whatever the upsert returned.
Save_KeepGoing(table, data, here, next) ==
    /\ pc = here
    /\ \E ok \in (IF ~client THEN {FALSE} ELSE IF data = <<>> THEN {TRUE} ELSE BOOLEAN) :
          /\ upserts' = Append(upserts, [table |-> table, ok |-> ok,
                                         sent |-> client /\ data # <<>>])
          /\ pc' = next
          /\ result' = IF next # "done" THEN result ELSE IF ok THEN "True" ELSE "False"
    /\ UNCHANGED << games, idx, canonical_games, all_teams, all_markets, all_odds_raw,
                    processed_market_ids_in_canonical, merged_market_count,
                    discarded_game_count, games_to_save, unique_latest_odds, caller >>

\* One of save_teams, save_games, save_markets, save_odds and the test of what
\* it returns.  _handle_upsert returns False without an upsert when the client
\* is missing, else True without an upsert when there is no data, else True
\* when the upsert succeeds and False when it raises; sent tells whether the
\* upsert request was made.
Save(table, data, here, next) ==
    /\ pc = here
    /\ \E ok \in (IF ~client THEN {FALSE} ELSE IF data = <<>> THEN {TRUE} ELSE BOOLEAN) :
          /\ upserts' = Append(upserts, [table |-> table, ok |-> ok,
                                         sent |-> client /\ data # <<>>])
          /\ pc' = IF ok THEN next ELSE "done"
          /\ result' = IF ~ok THEN "False" ELSE IF next = "done" THEN "True" ELSE result
    /\ UNCHANGED << games, idx, canonical_games, all_teams, all_markets, all_odds_raw,
                    processed_market_ids_in_canonical, merged_market_count,
                    discarded_game_count, games_to_save, unique_latest_odds, caller >>

SaveTeams == Save("teams", all_teams, "save_teams", "save_games")

SaveGames == Save("games", games_to_save, "save_games", "save_markets")

SaveMarkets == Save("markets", all_markets, "save_markets", "save_odds")

SaveOdds == Save("odds", unique_latest_odds, "save_odds", "done")

Next ==
    \/ ReturnEmpty
    \/ SkipGame
    \/ KeyRaises
    \/ CanonicalGame
    \/ DuplicateGame
    \/ FilterOdds
    \/ SaveTeams
    \/ SaveGames
    \/ SaveMarkets
    \/ SaveOdds

Spec == Init /\ [][Next]_vars

(***************************************************************************)
(* What one call produces, as the caller sees it.                          *)
(***************************************************************************)
\* The loop has ended without an exception: the three outputs exist.
Merged ==
    \/ pc \in {"save_teams", "save_games", "save_markets", "save_odds"}
    \/ pc = "done" /\ games # <<>>

CanonicalGameList == [j \in 1..Len(games_to_save) |-> games[games_to_save[j]]]

MarketAt(ref) == games[ref[1]].markets[ref[2]]

MarketList == [j \in 1..Len(all_markets) |-> MarketAt(all_markets[j].val)]

Range(seq) == { seq[j] : j \in 1..Len(seq) }

(***************************************************************************)
(* A second call, on the canonical games of a first call that succeeded.   *)
(***************************************************************************)
Rerun ==
    /\ run = 1
    /\ pc = "done"
    /\ result = "True"
    /\ games # <<>>
    /\ first_run' = [games   |-> Range(CanonicalGameList),
                     markets |-> Range(MarketList),
                     odds    |-> Range(unique_latest_odds)]
    /\ run' = 2
    /\ games' = CanonicalGameList
    /\ games_at_call' = CanonicalGameList
    /\ pc' = "loop"
    /\ idx' = 1
    /\ canonical_games' = <<>>
    /\ all_teams' = <<>>
    /\ all_markets' = <<>>
    /\ all_odds_raw' = <<>>
    /\ processed_market_ids_in_canonical' = {}
    /\ merged_market_count' = 0
    /\ discarded_game_count' = 0
    /\ games_to_save' = <<>>
    /\ unique_latest_odds' = <<>>
    /\ upserts' = <<>>
    /\ result' = "none"
    /\ UNCHANGED << client, id_vars, norm_vars, scrape_vars >>

NextRerun == Next \/ Rerun

SpecRerun == Init /\ [][NextRerun]_vars

(***************************************************************************)
(* Vocabulary of the claims, stated without the code's key function.       *)
(***************************************************************************)
\* The game has what a fuzzy key is made of.
Keyable(game) ==
    /\ game.home_team # NoTeam
    /\ game.away_team # NoTeam
    /\ game.start_time_utc # NoTime
    /\ game.home_team.canonical_name # NoneStr
    /\ game.away_team.canonical_name # NoneStr

TeamPair(game) == { game.home_team.canonical_name, game.away_team.canonical_name }

\* Same sport, league, unordered pair of canonical team names and UTC date.
SameEvent(g, h) ==
    /\ g.sport = h.sport
    /\ g.league = h.league
    /\ TeamPair(g) = TeamPair(h)
    /\ DateOf(g.start_time_utc) = DateOf(h.start_time_utc)

\* Same sport, league and UTC date, home and away exchanged.
HomeAwaySwapped(g, h) ==
    /\ g.sport = h.sport
    /\ g.league = h.league
    /\ DateOf(g.start_time_utc) = DateOf(h.start_time_utc)
    /\ g.home_team.canonical_name = h.away_team.canonical_name
    /\ g.away_team.canonical_name = h.home_team.canonical_name

\* The positions in the canonical list of the games of the same event as game.
CanonicalFor(game) ==
    { j \in 1..Len(games_to_save) : SameEvent(games[games_to_save[j]], game) }

(***************************************************************************)
(* C1.  Fuzzy-key symmetry: two input games with the same sport, league    *)
(* and UTC date whose canonical team names are the same pair with home and *)
(* away exchanged get the same key from get_fuzzy_game_key, and once the   *)
(* merge is done the canonical list holds exactly one game for the two.    *)
(***************************************************************************)
C1_FuzzyKeySymmetry ==
    \A a, b \in 1..Len(games) :
        ( /\ Keyable(games[a])
          /\ Keyable(games[b])
          /\ HomeAwaySwapped(games[a], games[b]) )
        => /\ get_fuzzy_game_key(games[a]) = get_fuzzy_game_key(games[b])
           /\ Merged => Cardinality(CanonicalFor(games[a])) = 1

\* The merge is done on two games that list the two teams the other way round.
C1_Witness ==
    /\ Merged
    /\ Len(games) = 2
    /\ Keyable(games[1])
    /\ Keyable(games[2])
    /\ HomeAwaySwapped(games[1], games[2])
    /\ games[1].home_team.canonical_name # games[1].away_team.canonical_name
    /\ games_to_save = <<1>>

(***************************************************************************)
(* C2.  Once the merge is done, the canonical list holds each position at  *)
(* most once, holds no game that has no key, and holds a game that has a   *)
(* key exactly when no earlier input game is of the same event (same       *)
(* sport, league, unordered canonical team pair and UTC date): one game    *)
(* per key, the first in input order, and no later game with that key.     *)
(***************************************************************************)
C2_FirstGamePerKey ==
    Merged =>
        /\ \A j, k \in 1..Len(games_to_save) :
               games_to_save[j] = games_to_save[k] => j = k
        /\ \A gi \in 1..Len(games) :
               gi \in Range(games_to_save)
               <=> /\ Keyable(games[gi])
                   /\ \A h \in 1..(gi - 1) :
                          ~(Keyable(games[h]) /\ SameEvent(games[h], games[gi]))

\* The merge is done on a list in which a later game repeats the key of the
\* first one and another game has a key of its own.
C2_Witness ==
    /\ Merged
    /\ \E a, b \in 1..Len(games) :
          /\ a < b
          /\ Keyable(games[a])
          /\ Keyable(games[b])
          /\ SameEvent(games[a], games[b])
          /\ games[a] # games[b]
          /\ a \in Range(games_to_save)
          /\ b \notin Range(games_to_save)

\* Every market of the input has the game_id of the game that owns it.
MarketsNameTheirGame ==
    \A gi \in 1..Len(games_at_call) :
        \A mi \in 1..Len(games_at_call[gi].markets) :
            games_at_call[gi].markets[mi].game_id = games_at_call[gi].game_id

\* Every Odds of the input, wherever it sits.
InputOdds ==
    UNION { UNION { Range(games_at_call[gi].markets[mi].odds) :
                      mi \in 1..Len(games_at_call[gi].markets) } :
              gi \in 1..Len(games_at_call) }

(***************************************************************************)
(* C3.  As claimed: a market whose market_id is already in all_markets is  *)
(* not added again, yet all its Odds reach the pool all_odds_raw; so once  *)
(* the merge is done, the pool holds every Odds of every market of every   *)
(* game that has a key.  The code skips the odds of a market_id it has     *)
(* seen: its elif tests a set that holds every id all_markets holds.       *)
(***************************************************************************)
C3_LaterOccurrenceKeepsOdds ==
    Merged =>
        /\ \A j, k \in 1..Len(all_markets) :
               all_markets[j].key = all_markets[k].key => j = k
        /\ \A gi \in 1..Len(games) :
               Keyable(games[gi]) =>
                   \A mi \in 1..Len(games[gi].markets) :
                       Range(games[gi].markets[mi].odds) \subseteq Range(all_odds_raw)

(***************************************************************************)
(* C4.  As claimed: of two Odds anywhere in the input with the same        *)
(* (market_id, bookmaker, side) and different timestamp_collected, the     *)
(* latest-odds output holds the later one (the latest of its key) and not  *)
(* the earlier one.                                                        *)
(***************************************************************************)
C4_OddsFreshness ==
    Merged =>
        \A earlier, later \in InputOdds :
            ( /\ OddsKey(earlier) = OddsKey(later)
              /\ earlier.timestamp_collected < later.timestamp_collected
              /\ \A o \in InputOdds :
                     OddsKey(o) = OddsKey(later)
                     => o.timestamp_collected <= later.timestamp_collected )
            => /\ later \in Range(unique_latest_odds)
               /\ earlier \notin Range(unique_latest_odds)

(***************************************************************************)
(* C5.  As claimed: once the merge is done, two entries of all_markets     *)
(* whose games are of the same event and that have the same market type,   *)
(* period and line are one entry.  The code keys all_markets by the        *)
(* market_id the adapter derived from the source's own game_id, which      *)
(* re-parenting leaves as it was.                                          *)
(***************************************************************************)
C5_SameMarketCollapses ==
    Merged =>
        \A j, k \in 1..Len(all_markets) :
            ( /\ SameEvent(games[all_markets[j].val[1]], games[all_markets[k].val[1]])
              /\ MarketList[j].market_type = MarketList[k].market_type
              /\ MarketList[j].period = MarketList[k].period
              /\ MarketList[j].line = MarketList[k].line )
            => j = k

(***************************************************************************)
(* C6.  As claimed: when a second call on the canonical games of a first   *)
(* call has merged, its canonical games, its markets and its latest odds   *)
(* are, as sets, those of the first call.  (Specification SpecRerun.)      *)
(***************************************************************************)
C6_MergeIdempotent ==
    (run = 2 /\ Merged) =>
        /\ Range(CanonicalGameList) = first_run.games
        /\ Range(MarketList) = first_run.markets
        /\ Range(unique_latest_odds) = first_run.odds

(***************************************************************************)
(* C7.  The two-provider scenario: provider A's game (NBA, Lakers home,    *)
(* Celtics away, 2025-01-01T19:00Z) with a MONEYLINE market, then provider *)
(* B's game (NBA, Celtics home, Lakers away, 2025-01-01T19:05Z) with a     *)
(* SPREAD market.  Once the merge is done there is one canonical game, it  *)
(* is the first input game, and it carries both markets in the sense of    *)
(* the merge's bookkeeping: all_markets holds A's MONEYLINE market and B's *)
(* SPREAD market, each with the canonical game's game_id.                  *)
(***************************************************************************)
TwoProviderScenario ==
    /\ Len(games_at_call) = 2
    /\ MarketsNameTheirGame
    /\ LET A == games_at_call[1]
           B == games_at_call[2]
       IN  /\ Keyable(A) /\ Keyable(B)
           /\ A.bookmaker # B.bookmaker
           /\ A.sport = "NBA" /\ B.sport = "NBA"
           /\ A.home_team.raw_name = Lakers /\ A.away_team.raw_name = Celtics
           /\ B.home_team.raw_name = Celtics /\ B.away_team.raw_name = Lakers
           /\ A.start_time_utc = Start_Jan1_1900
           /\ B.start_time_utc = Start_Jan1_1905
           /\ Len(A.markets) = 1 /\ A.markets[1].market_type = "MONEYLINE"
           /\ Len(B.markets) = 1 /\ B.markets[1].market_type = "SPREAD"

C8_MarketsNameCanonicalGame ==
    (MarketsNameTheirGame /\ Merged) =>
        \A m \in Range(MarketList) :
            \E g \in Range(CanonicalGameList) : m.game_id = g.game_id

\* The merge is done and all_markets holds a market of a duplicate game whose
\* game_id was another one in the input.
C8_Witness ==
    /\ MarketsNameTheirGame
    /\ Merged
    /\ \E j \in 1..Len(all_markets) :
          LET ref == all_markets[j].val
          IN  /\ ref[1] \notin Range(games_to_save)
              /\ games_at_call[ref[1]].markets[ref[2]].game_id # MarketAt(ref).game_id

(***************************************************************************)
(* C9.  Once the merge is done, the latest-odds output holds at most one   *)
(* record per (market_id, bookmaker, side), and every record of it is an   *)
(* Odds of the input as it was passed.                                     *)
(***************************************************************************)
C9_OneUnchangedOddsPerKey ==
    Merged =>
        /\ \A j, k \in 1..Len(unique_latest_odds) :
               OddsKey(unique_latest_odds[j]) = OddsKey(unique_latest_odds[k]) => j = k
        /\ Range(unique_latest_odds) \subseteq InputOdds

\* The merge is done and the filter has dropped an observation of a key.
C9_Witness ==
    /\ Merged
    /\ unique_latest_odds # <<>>
    /\ Len(unique_latest_odds) < Len(all_odds_raw)

(***************************************************************************)
(* C10.  As claimed: no error leaves the merge because of a game whose     *)
(* fuzzy key cannot be computed (a team, a team's canonical name or the    *)
(* start time is missing); the loop passes over every input game and the   *)
(* canonical list holds no such game.  The code raises TypeError from      *)
(* sorted() when a canonical name is None.                                 *)
(***************************************************************************)
C10_KeyFailureIsolated ==
    /\ pc # "raised"
    /\ Merged =>
           /\ idx = Len(games) + 1
           /\ \A gi \in 1..Len(games) :
                  ~Keyable(games[gi]) => gi \notin Range(games_to_save)

(***************************************************************************)
(* Calls of the id functions on their own: generate_canonical_id, and the  *)
(* adapters' derivation of market_id and game_id.                          *)
(***************************************************************************)
\* Largest number of arguments in a call of generate_canonical_id.
MaxParts == 2

\* No call of save_normalized_data is under way.
MergeIdle ==
    /\ games = <<>>
    /\ pc = "off"
    /\ idx = 1
    /\ canonical_games = <<>>
    /\ all_teams = <<>>
    /\ all_markets = <<>>
    /\ all_odds_raw = <<>>
    /\ processed_market_ids_in_canonical = {}
    /\ merged_market_count = 0
    /\ discarded_game_count = 0
    /\ games_to_save = <<>>
    /\ unique_latest_odds = <<>>
    /\ upserts = <<>>
    /\ result = "none"
    /\ games_at_call = <<>>
    /\ run = 1
    /\ first_run = [games |-> {}, markets |-> {}, odds |-> {}]
    /\ client = FALSE

merge_vars ==
    << games, pc, idx, canonical_games, all_teams, all_markets, all_odds_raw,
       processed_market_ids_in_canonical, merged_market_count, discarded_game_count,
       games_to_save, unique_latest_odds, upserts, result, games_at_call, run,
       first_run, client >>

\* The string of n copies of s.
Repeat(s, n) == [i \in 1..(n * Len(s)) |-> s[((i - 1) % Len(s)) + 1]]

\* Arguments of generate_canonical_id: None, the empty str, names with blanks,
\* capitals and punctuation, and strings around the length limit once cleaned.
IdParts ==
    { NoneStr, <<>>, Lakers,
      <<"L", "o", "s", " ", "A", "n", "g", "e", "l", "e", "s">>,
      <<"S", "t", ".", " ", "L", "o", "u", "i", "s", " ", "(", "+", "1", ".", "5", ")">>,
      Repeat(<<"a">>, 50), Repeat(<<"A", " ">>, 50),
      Repeat(<<"a">>, 100), Repeat(<<"a">>, 101), Repeat(<<"a", ".">>, 60) }

IdArgLists == UNION { [1..n -> IdParts] : n \in 1..MaxParts }

\* Two calls of generate_canonical_id on the same arguments.
GenerateId ==
    /\ id_pc = "generate_canonical_id"
    /\ Len(id_out) < 2
    /\ id_out' = Append(id_out, generate_canonical_id(id_args))
    /\ UNCHANGED << id_pc, id_args, merge_vars, norm_vars, scrape_vars >>

\* Lines as str() of the Decimal an adapter derives: absent, zero, and lines
\* that differ in sign, in the place of the point or in a trailing zero.
Lines ==
    { NoneStr, <<"0">>, <<"1", ".", "5">>, <<"-", "1", ".", "5">>, <<"1", "5">>,
      <<"1", ".", "5", "0">>, <<"7">>, <<"7", ".", "5">> }

\* id_args = <<game_id, market_type, line, line>>: the market_id of two
\* markets of one game and one market type.
MarketIdCalls ==
    { << g, t, l1, l2 >> : g \in { BaseGame.game_id }, t \in { "SPREAD", "TOTAL" },
                           l1 \in Lines, l2 \in Lines }

MakeMarketIds ==
    /\ id_pc = "market_id"
    /\ id_out = <<>>
    /\ id_out' = << MakeMarketId(id_args[1], id_args[2], id_args[3]),
                    MakeMarketId(id_args[1], id_args[2], id_args[4]) >>
    /\ UNCHANGED << id_pc, id_args, merge_vars, norm_vars, scrape_vars >>

\* Start times as written: 19:00 and 19:05 UTC on 1 January; 23:30 on
\* 1 January at UTC-5 (2 January in UTC); 01:00 on 2 January at UTC+2
\* (1 January in UTC); 00:00 UTC on 2 January.
StartStrings ==
    { [iso |-> TRUE, local |-> 19 * 60, offset |-> 0],
      [iso |-> TRUE, local |-> 19 * 60 + 5, offset |-> 0],
      [iso |-> TRUE, local |-> 23 * 60 + 30, offset |-> 0 - 5 * 60],
      [iso |-> TRUE, local |-> MinutesPerDay + 60, offset |-> 2 * 60],
      [iso |-> TRUE, local |-> MinutesPerDay, offset |-> 0] }

\* The fields of a raw event that its game_id is made of.
IdEvents ==
    { [sport |-> "NBA", league |-> "NBA", home |-> n[1], away |-> n[2], start |-> t] :
        n \in { << Lakers, Celtics >>, << Celtics, Lakers >>, << LAL, Celtics >> },
        t \in StartStrings }

\* The game_id an adapter derives for a raw event.
GameIdOf(raw_event) ==
    MakeGameId(raw_event.sport, raw_event.league,
               generate_canonical_id(<< raw_event.away >>),
               generate_canonical_id(<< raw_event.home >>),
               _parse_datetime(raw_event.start))

\* id_args = <<raw event, raw event>>: the game_id of each.
MakeGameIds ==
    /\ id_pc = "game_id"
    /\ id_out = <<>>
    /\ id_out' = << GameIdOf(id_args[1]), GameIdOf(id_args[2]) >>
    /\ UNCHANGED << id_pc, id_args, merge_vars, norm_vars, scrape_vars >>

\* The largest decimal odds an Odds is built with, in hundredths (10.00).
MaxDecimalOdds == 1000

\* American odds taken from the positive branch whatever the price.
model_post_init_PositiveOnly(decimal_odds) == decimal_odds - 100

\* Odds.model_post_init for american_odds = None and decimal_odds, in
\* hundredths, above 1: int((d - 1) * 100) is exact for a price of two
\* places; int(-100 / (d - 1)) drops the fraction of the Decimal quotient
\* (towards zero).
model_post_init(decimal_odds) ==
    IF decimal_odds >= 200 THEN decimal_odds - 100
    ELSE 0 - (10000 \div (decimal_odds - 100))

\* id_args = <<decimal_odds>>: Odds(decimal_odds=...) with no american_odds.
\* Field(gt=1) has let the price pass.
NewOdds ==
    /\ id_pc = "american_odds"
    /\ id_out = <<>>
    /\ id_out' = << model_post_init(id_args[1]) >>
    /\ UNCHANGED << id_pc, id_args, merge_vars, norm_vars, scrape_vars >>

InitIds ==
    /\ MergeIdle
    /\ NormalizeIdle
    /\ ScrapeIdle
    /\ id_out = <<>>
    /\ \/ id_pc = "generate_canonical_id" /\ id_args \in IdArgLists
       \/ id_pc = "market_id" /\ id_args \in MarketIdCalls
       \/ id_pc = "game_id" /\ id_args \in (IdEvents \X IdEvents)
       \/ id_pc = "american_odds" /\ id_args \in { << d >> : d \in 101..MaxDecimalOdds }

NextIds ==
    \/ GenerateId
    \/ MakeMarketIds
    \/ MakeGameIds
    \/ NewOdds

SpecIds == InitIds /\ [][NextIds]_vars

\* The cleaned string of the arguments: the truthy arguments joined by "_",
\* every character lower-cased, blanks made "_", and nothing kept but
\* letters, digits and "_".
RECURSIVE JoinedArgs(_)
JoinedArgs(args) ==
    IF args = <<>> THEN <<>>
    ELSE IF Len(args) = 1 THEN args[1]
    ELSE args[1] \o <<"_">> \o JoinedArgs(Tail(args))

CleanChar(c) == IF c = " " THEN "_" ELSE LowerChar(c)

Cleaned(args) ==
    LET joined == JoinedArgs(SelectSeq(args, NonEmptyArg))
    IN  SelectSeq([i \in 1..Len(joined) |-> CleanChar(joined[i])], IsWordChar)

IsHex(c) == \E j \in 1..Len(HexDigits) : HexDigits[j] = c

(***************************************************************************)
(* C18.  generate_canonical_id is deterministic and bounded: two calls on  *)
(* the same arguments return the same string; when the cleaned string has  *)
(* at most 100 characters the result is the cleaned string, when it has    *)
(* more the result is 16 hexadecimal digits; the result never has more     *)
(* than 100 characters.                                                    *)
(***************************************************************************)
C18_IdDeterministicBounded ==
    id_pc = "generate_canonical_id" =>
        /\ \A j, k \in 1..Len(id_out) : id_out[j] = id_out[k]
        /\ \A j \in 1..Len(id_out) :
               /\ Len(Cleaned(id_args)) <= 100 => id_out[j] = Cleaned(id_args)
               /\ Len(Cleaned(id_args)) > 100 =>
                      /\ Len(id_out[j]) = 16
                      /\ \A k \in 1..16 : IsHex(id_out[j][k])
               /\ Len(id_out[j]) <= 100

\* Two calls have returned a digest for a cleaned string of 101 characters.
C18_Witness ==
    /\ id_pc = "generate_canonical_id"
    /\ Len(id_out) = 2
    /\ Len(Cleaned(id_args)) = 101
    /\ Len(id_out[1]) = 16

\* The value of a line in thousandths: the digits of str(Decimal) read as a
\* number with three places after the point.
DigitValue(c) == Ord(c) - Ord("0")

RECURSIVE DigitsValue(_)
DigitsValue(ds) ==
    IF ds = <<>> THEN 0 ELSE DigitsValue(SubSeq(ds, 1, Len(ds) - 1)) * 10 + DigitValue(ds[Len(ds)])

LineValue(line) ==
    LET neg    == line # <<>> /\ line[1] = "-"
        digits == IF neg THEN Tail(line) ELSE line
        dots   == { j \in 1..Len(digits) : digits[j] = "." }
        point  == IF dots = {} THEN Len(digits) + 1 ELSE CHOOSE j \in dots : TRUE
        whole  == SubSeq(digits, 1, point - 1)
        frac   == SubSeq(digits, point + 1, Len(digits))
        padded == SubSeq(frac \o <<"0", "0", "0">>, 1, 3)
        value  == DigitsValue(whole) * 1000 + DigitsValue(padded)
    IN  IF neg THEN 0 - value ELSE value

\* Both lines absent, or both present and numerically equal.
SameLine(l1, l2) ==
    IF l1 = NoneStr \/ l2 = NoneStr THEN l1 = l2 ELSE LineValue(l1) = LineValue(l2)

(***************************************************************************)
(* C19.  As claimed: for one game_id and one market type, two markets get  *)
(* the same market_id only if they have the same line (both absent, or     *)
(* numerically equal).  The code writes the line with str(), takes a zero  *)
(* line for an absent one, and strips "-" and "." from the id.             *)
(***************************************************************************)
C19_MarketIdsCollisionFree ==
    (id_pc = "market_id" /\ Len(id_out) = 2) =>
        (id_out[1] = id_out[2] => SameLine(id_args[3], id_args[4]))

(***************************************************************************)
(* C20.  game_id depends on the date only: of two raw events with the same *)
(* sport, league, home name and away name, those that start on the same    *)
(* UTC date get the same game_id and those that start on different UTC     *)
(* dates get different ones; and an event and the event with home and away *)
(* exchanged, on the same UTC date, get different game_ids.                *)
(***************************************************************************)
UtcDateOf(raw_event) == (raw_event.start.local - raw_event.start.offset) \div MinutesPerDay

C20_GameIdByDate ==
    (id_pc = "game_id" /\ Len(id_out) = 2) =>
        LET e1 == id_args[1]
            e2 == id_args[2]
        IN  /\ ( /\ e1.sport = e2.sport /\ e1.league = e2.league
                 /\ e1.home = e2.home /\ e1.away = e2.away )
               => (id_out[1] = id_out[2] <=> UtcDateOf(e1) = UtcDateOf(e2))
            /\ ( /\ e1.sport = e2.sport /\ e1.league = e2.league
                 /\ e1.home = e2.away /\ e1.away = e2.home
                 /\ e1.home # e1.away
                 /\ UtcDateOf(e1) = UtcDateOf(e2) )
               => id_out[1] # id_out[2]

\* The ids are made for the same fixture written at 19:00 UTC and at 01:00 of
\* the next day on a clock two hours ahead: one UTC date, two local dates.
C20_Witness ==
    /\ id_pc = "game_id"
    /\ Len(id_out) = 2
    /\ id_args[1].home = id_args[2].home
    /\ id_args[1].away = id_args[2].away
    /\ id_args[1].start.offset = 0
    /\ id_args[2].start.offset = 2 * 60
    /\ id_args[1].start.local \div MinutesPerDay # id_args[2].start.local \div MinutesPerDay
    /\ UtcDateOf(id_args[1]) = UtcDateOf(id_args[2])
    /\ id_out[1] = id_out[2]

\* The home and away teams of the input games in the order the loop meets
\* them: game by game, home before away.
TeamOccurrences ==
    [k \in 1..(2 * Len(games_at_call)) |->
        IF k % 2 = 1 THEN games_at_call[(k + 1) \div 2].home_team
        ELSE games_at_call[k \div 2].away_team]

\* The positions whose team is set and whose team_id no earlier position has.
EarliestOccurrences ==
    { k \in DOMAIN TeamOccurrences :
        /\ TeamOccurrences[k] # NoTeam
        /\ \A h \in 1..(k - 1) :
              TeamOccurrences[h] = NoTeam
              \/ TeamOccurrences[h].team_id # TeamOccurrences[k].team_id }

(***************************************************************************)
(* C17.  Teams are deduplicated by team_id, first occurrence wins: once    *)
(* the loop has ended, the list handed to save_teams holds exactly one     *)
(* Team for each team_id among the home and away teams of all input games  *)
(* (canonical, duplicate and dropped alike), and it is the earliest        *)
(* occurrence of that team_id, home before away within a game.             *)
(***************************************************************************)
C17_TeamsFirstOccurrence ==
    Merged =>
        /\ Range(Values(all_teams)) = { TeamOccurrences[k] : k \in EarliestOccurrences }
        /\ Len(all_teams) = Cardinality(EarliestOccurrences)
        /\ \A j \in 1..Len(all_teams) : all_teams[j].key = all_teams[j].val.team_id

\* save_teams has been handed the teams of two games whose home teams are
\* two different Team objects with one team_id, the second game a duplicate
\* of the first or a dropped game.
C17_Witness ==
    /\ pc = "save_games"
    /\ upserts # <<>> /\ upserts[1].table = "teams" /\ upserts[1].sent
    /\ Len(games_at_call) = 2
    /\ games_at_call[1].home_team # NoTeam /\ games_at_call[2].home_team # NoTeam
    /\ games_at_call[1].home_team.team_id = games_at_call[2].home_team.team_id
    /\ games_at_call[1].home_team # games_at_call[2].home_team
    /\ Len(games_to_save) = 1
    /\ games_at_call[1].home_team \in Range(Values(all_teams))

(***************************************************************************)
(* Normalizer.normalize and the two adapters on raw documents              *)
(* (normalizer.py).  A raw record is written as what the adapter's tests   *)
(* and helper calls make of it: its kind ("dict" for a JSON object,        *)
(* "not_dict" for anything else, "raises" for an object with a field of a  *)
(* type on which the adapter's code raises) and the values its helpers     *)
(* return for its fields.                                                  *)
(***************************************************************************)
\* _parse_decimal returned None, or the record has no price.
NoPrice == -1

\* A validation that accepts every price.
OddsIsValid_Any(price) == TRUE

\* Odds(...): decimal_odds: Decimal = Field(..., gt=1); prices in hundredths.
OddsIsValid(price) == price > 100

RECURSIVE Concat(_)
Concat(seqs) == IF seqs = <<>> THEN <<>> ELSE Head(seqs) \o Concat(Tail(seqs))

\* The selections of a Crab Sports bet that reach processed_outcomes: dicts
\* with a label that maps to a side and a price that parses.  A selection
\* of kind "raises" (a label that is not a string) ends in the selection's
\* except branch.
Processed(raw_selection) ==
    /\ raw_selection.kind = "dict"
    /\ raw_selection.side # "None"
    /\ raw_selection.price # NoPrice

\* The line of the first outcome, whatever it is.
CrabMarketLine_FirstOutcome(market_type, processed_outcomes) ==
    IF market_type \in {"SPREAD", "TOTAL"} /\ processed_outcomes # <<>>
    THEN processed_outcomes[1].line
    ELSE NoneStr

\* "the first valid outcome line sets the market line", for SPREAD and TOTAL.
CrabMarketLine(market_type, processed_outcomes) ==
    LET HasLine(outcome) == outcome.line # NoneStr
        with_line        == SelectSeq(processed_outcomes, HasLine)
    IN  IF market_type \in {"SPREAD", "TOTAL"} /\ with_line # <<>> THEN with_line[1].line
        ELSE NoneStr

\* A market that is appended to the game although it has no odds.
CrabMarket_KeepEmpty(game_id, raw_market) ==
    IF raw_market.kind # "dict" \/ raw_market.market_type = "None"
       \/ ~raw_market.selections_is_list
    THEN <<>>
    ELSE LET processed_outcomes == SelectSeq(raw_market.selections, Processed)
         IN  IF \E k \in 1..Len(processed_outcomes) :
                    ~OddsIsValid(processed_outcomes[k].price)
             THEN <<>>
             ELSE << MakeMarket(game_id, "CRAB_SPORTS",
                                [market_type |-> raw_market.market_type,
                                 line        |-> CrabMarketLine(raw_market.market_type,
                                                                processed_outcomes),
                                 outcomes    |-> processed_outcomes]) >>

\* One pass of "for raw_market_container in raw_market_list": the markets it
\* appends to game.markets (none or one).  The Odds are built after the loop
\* over the selections, inside the market's try only: an Odds that fails
\* validation ends the pass in "except Exception as market_exc".
CrabMarket(game_id, raw_market) ==
    IF raw_market.kind # "dict" \/ raw_market.market_type = "None"
       \/ ~raw_market.selections_is_list
    THEN <<>>
    ELSE LET processed_outcomes == SelectSeq(raw_market.selections, Processed)
         IN  IF \E k \in 1..Len(processed_outcomes) :
                    ~OddsIsValid(processed_outcomes[k].price)
             THEN <<>>
             ELSE IF processed_outcomes = <<>> THEN <<>>
             ELSE << MakeMarket(game_id, "CRAB_SPORTS",
                                [market_type |-> raw_market.market_type,
                                 line        |-> CrabMarketLine(raw_market.market_type,
                                                                processed_outcomes),
                                 outcomes    |-> processed_outcomes]) >>

\* The tests both adapters make before they build a Game: a dict, both team
\* names, a mapped sport and league, a start time that parses.
EventIsUsable(raw_event) ==
    /\ raw_event.kind = "dict"
    /\ raw_event.home # NoneStr /\ raw_event.away # NoneStr
    /\ raw_event.sport # "None" /\ raw_event.league # "None"
    /\ _parse_datetime(raw_event.start) # NoTime

\* The Game of a raw event, before its markets are processed.
EventGame(raw_event, bookmaker) ==
    MakeGame([sport |-> raw_event.sport, league |-> raw_event.league,
              home |-> raw_event.home, away |-> raw_event.away,
              start |-> _parse_datetime(raw_event.start), bookmaker |-> bookmaker,
              markets |-> <<>>])

\* One pass of "for raw_event in raw_events": the games it appends to
\* normalized_games (none or one).  An event of kind "raises" (a team label
\* that is not a string) ends in "except Exception as event_exc".
CrabEvent(raw_event) ==
    IF ~EventIsUsable(raw_event) THEN <<>>
    ELSE LET game    == EventGame(raw_event, "CRAB_SPORTS")
             markets == Concat([m \in 1..Len(raw_event.markets) |->
                                   CrabMarket(game.game_id, raw_event.markets[m])])
         IN  IF markets = <<>> THEN <<>> ELSE << [game EXCEPT !.markets = markets] >>

\* _normalize_crabsports_data: what it returns, or that it raised.  A
\* response that is not a dict raises at raw_response.keys(); one without the
\* 'prematch_event_list' component, its data or its events gives [].
_normalize_crabsports_data(raw_response) ==
    [raised |-> raw_response.kind = "not_dict",
     games  |-> IF raw_response.kind # "dict" THEN <<>>
                ELSE Concat([e \in 1..Len(raw_response.events) |->
                                CrabEvent(raw_response.events[e])])]

\* src.utils.calcs.american_to_decimal, by its description (the module is
\* not among the sources): a/100 + 1 for positive American odds a and
\* 100/|a| + 1 for negative ones, in hundredths.
american_to_decimal(a) ==
    IF a > 0 THEN a + 100 ELSE ((20000 + (0 - a)) \div (2 * (0 - a))) + 100

\* abs() of a Decimal, as str() writes it.
AbsLine(points) == IF points # <<>> /\ points[1] = "-" THEN Tail(points) ELSE points

\* odds_data_list and market_line of a Pinnacle market with two prices, by
\* market type.  designated is the last price with a designation, if any.
PinnacleOddsData(market_type, prices) ==
    LET odds(k)         == american_to_decimal(prices[k].price)
        usable(k)       == prices[k].points # NoneStr /\ odds(k) # 0
        outcome(side, k) ==
            [side |-> side, price |-> odds(k), stamp |-> prices[k].stamp]
        designated(d)   ==
            LET ks == { k \in 1..Len(prices) : prices[k].designation = d }
            IN  IF ks = {} THEN 0 ELSE CHOOSE k \in ks : \A h \in ks : h <= k
        over            == designated("over")
        under           == designated("under")
    IN  CASE market_type = "MONEYLINE" ->
               [odds_data_list |-> IF odds(1) # 0 /\ odds(2) # 0
                                   THEN << outcome("HOME", 1), outcome("AWAY", 2) >>
                                   ELSE <<>>,
                market_line    |-> NoneStr]
          [] market_type = "SPREAD" ->
               [odds_data_list |-> (IF usable(1) THEN << outcome("HOME", 1) >> ELSE <<>>)
                                   \o (IF usable(2) THEN << outcome("AWAY", 2) >> ELSE <<>>),
                market_line    |-> IF usable(1) THEN AbsLine(prices[1].points)
                                   ELSE IF usable(2) THEN AbsLine(prices[2].points)
                                   ELSE NoneStr]
          [] market_type = "TOTAL" ->
               IF /\ over # 0 /\ under # 0
                  /\ prices[over].points # NoneStr
                  /\ odds(over) # 0 /\ odds(under) # 0
               THEN [odds_data_list |-> << outcome("OVER", over), outcome("UNDER", under) >>,
                     market_line    |-> prices[over].points]
               ELSE [odds_data_list |-> <<>>, market_line |-> NoneStr]

\* One pass of "for raw_market in game_markets": the markets it appends to
\* game.markets (none or one).  A price that is not a dict raises at
\* price.get inside the market's try, and so does an Odds that fails
\* validation.
PinnacleMarket(game_id, raw_market) ==
    IF raw_market.period # 0 \/ raw_market.type = "None" \/ Len(raw_market.prices) # 2
    THEN <<>>
    ELSE IF \E k \in 1..2 : raw_market.prices[k].kind # "dict" THEN <<>>
    ELSE LET data           == PinnacleOddsData(raw_market.type, raw_market.prices)
             odds_data_list == data.odds_data_list
         IN  IF odds_data_list = <<>> THEN <<>>
             ELSE IF \E k \in 1..Len(odds_data_list) : ~OddsIsValid(odds_data_list[k].price)
             THEN <<>>
             ELSE << MakeMarket(game_id, "PINNACLE",
                                [market_type |-> raw_market.type,
                                 line        |-> data.market_line,
                                 outcomes    |-> odds_data_list]) >>

\* One pass of "for raw_matchup in raw_matchups": the games it appends to
\* normalized_games (none or one); id 0 stands for a matchup without
\* parentId and id.  A matchup of kind "raises" (its league is null) ends in
\* "except Exception as game_exc".
PinnacleMatchup(raw_matchup, raw_markets) ==
    IF ~EventIsUsable(raw_matchup) \/ raw_matchup.id = 0 THEN <<>>
    ELSE LET game         == EventGame(raw_matchup, "PINNACLE")
             IsOfGame(m)  == m.matchupId = raw_matchup.id
             game_markets == SelectSeq(raw_markets, IsOfGame)
             markets      == Concat([m \in 1..Len(game_markets) |->
                                        PinnacleMarket(game.game_id, game_markets[m])])
         IN  IF markets = <<>> THEN <<>> ELSE << [game EXCEPT !.markets = markets] >>

\* _normalize_pinnacle_data: what it returns, or that it raised.  A document
\* that is not a dict raises at raw_league_data.get; the loop that groups
\* the market records by matchupId calls market_item.get on every record,
\* outside any try.
_normalize_pinnacle_data(raw_league_data) ==
    LET grouped == /\ raw_league_data.kind = "dict"
                   /\ raw_league_data.matchups # <<>>
                   /\ raw_league_data.markets # <<>>
        raised  == \/ raw_league_data.kind = "not_dict"
                   \/ /\ grouped
                      /\ \E m \in 1..Len(raw_league_data.markets) :
                            raw_league_data.markets[m].kind # "dict"
    IN  [raised |-> raised,
         games  |-> IF ~grouped \/ raised THEN <<>>
                    ELSE Concat([g \in 1..Len(raw_league_data.matchups) |->
                                    PinnacleMatchup(raw_league_data.matchups[g],
                                                    raw_league_data.markets)])]

\* The try block of normalize for one bookmaker: every document through the
\* bookmaker's adapter, the games gathered in normalized_games_for_book.
Adapter(bookmaker, raw_response) ==
    IF bookmaker = "CRAB_SPORTS" THEN _normalize_crabsports_data(raw_response)
    ELSE _normalize_pinnacle_data(raw_response)

BookRaised(bookmaker, raw_responses) ==
    \E d \in 1..Len(raw_responses) : Adapter(bookmaker, raw_responses[d]).raised

normalized_games_for_book(bookmaker, raw_responses) ==
    Concat([d \in 1..Len(raw_responses) |-> Adapter(bookmaker, raw_responses[d]).games])

InNormalize == norm_pc = "loop" /\ book_idx <= Len(raw_data_by_book)

\* if not raw_responses: continue
SkipBook ==
    /\ InNormalize
    /\ raw_data_by_book[book_idx].val = <<>>
    /\ book_idx' = book_idx + 1
    /\ UNCHANGED << raw_data_by_book, all_normalized_games, norm_pc, norm_errors,
                    merge_vars, id_vars, scrape_vars >>

\* An except branch that discards what the earlier bookmakers gave.
BookRaises_DropAll ==
    /\ InNormalize
    /\ raw_data_by_book[book_idx].val # <<>>
    /\ BookRaised(raw_data_by_book[book_idx].key, raw_data_by_book[book_idx].val)
    /\ norm_errors' = Append(norm_errors, raw_data_by_book[book_idx].key)
    /\ all_normalized_games' = <<>>
    /\ book_idx' = book_idx + 1
    /\ UNCHANGED << raw_data_by_book, norm_pc, merge_vars, id_vars, scrape_vars >>

\* The try block ran to its end: all_normalized_games.extend(...).
NormalizeBook ==
    /\ InNormalize
    /\ raw_data_by_book[book_idx].val # <<>>
    /\ ~BookRaised(raw_data_by_book[book_idx].key, raw_data_by_book[book_idx].val)
    /\ all_normalized_games' =
          all_normalized_games
          \o normalized_games_for_book(raw_data_by_book[book_idx].key,
                                       raw_data_by_book[book_idx].val)
    /\ book_idx' = book_idx + 1
    /\ UNCHANGED << raw_data_by_book, norm_pc, norm_errors, merge_vars, id_vars, scrape_vars >>

\* An adapter raised: "except Exception" logs and continues with the next
\* bookmaker; normalized_games_for_book is dropped.
BookRaises ==
    /\ InNormalize
    /\ raw_data_by_book[book_idx].val # <<>>
    /\ BookRaised(raw_data_by_book[book_idx].key, raw_data_by_book[book_idx].val)
    /\ norm_errors' = Append(norm_errors, raw_data_by_book[book_idx].key)
    /\ book_idx' = book_idx + 1
    /\ UNCHANGED << raw_data_by_book, all_normalized_games, norm_pc, merge_vars, id_vars,
                    scrape_vars >>

\* return all_normalized_games
NormalizeReturn ==
    /\ norm_pc = "loop"
    /\ book_idx > Len(raw_data_by_book)
    /\ norm_pc' = "returned"
    /\ UNCHANGED << raw_data_by_book, book_idx, all_normalized_games, norm_errors,
                    merge_vars, id_vars, scrape_vars >>

\* main: "if normalized_games:" calls save_normalized_data on the list; the
\* client is set, or main had returned before the scrape.
StartSave ==
    /\ norm_pc = "returned"
    /\ all_normalized_games # <<>>
    /\ norm_pc' = "saving"
    /\ games' = all_normalized_games
    /\ games_at_call' = all_normalized_games
    /\ pc' = "loop"
    /\ client' = TRUE
    /\ UNCHANGED << idx, canonical_games, all_teams, all_markets, all_odds_raw,
                    processed_market_ids_in_canonical, merged_market_count,
                    discarded_game_count, games_to_save, unique_latest_odds, upserts,
                    result, run, first_run, id_vars, scrape_vars, raw_data_by_book,
                    book_idx, all_normalized_games, norm_errors >>

\* main: "No normalized games to save to Supabase."
NothingToSave ==
    /\ norm_pc = "returned"
    /\ all_normalized_games = <<>>
    /\ norm_pc' = "done"
    /\ UNCHANGED << raw_data_by_book, book_idx, all_normalized_games, norm_errors,
                    merge_vars, id_vars, scrape_vars >>

(***************************************************************************)
(* Raw documents: the fixture of 1 January (Celtics at Lakers) and the     *)
(* return fixture of 2 January as each provider reports them, with one     *)
(* record at a time replaced or joined by a record the adapter cannot use. *)
(***************************************************************************)
InsertAt(seq, pos, x) == SubSeq(seq, 1, pos - 1) \o << x >> \o SubSeq(seq, pos, Len(seq))

\* seq with one member of bads put in at any position.
Insertions(seq, bads) == { InsertAt(seq, pos, b) : pos \in 1..(Len(seq) + 1), b \in bads }

RawStart(start_time) == [iso |-> TRUE, local |-> start_time, offset |-> 0]

\* A Crab Sports selection: the side _map_market_side gives its label, the
\* price _parse_decimal gives its odds, the line _extract_line_from_label
\* gives its label, and the time at which its Odds is built.
RawSelection(side, price, line) ==
    [kind |-> "dict", side |-> side, price |-> price, line |-> line, stamp |-> 2]

\* A Crab Sports market container: the market type _map_market_type gives
\* the label of its first bet, and that bet's selections.
CrabMarketRecord(market_type, selections) ==
    [kind |-> "dict", market_type |-> market_type, selections_is_list |-> TRUE,
     selections |-> selections]

CrabEventRecord(home, away, start_time, markets) ==
    [kind |-> "dict", sport |-> "NBA", league |-> "NBA", home |-> home, away |-> away,
     start |-> RawStart(start_time), markets |-> markets]

\* A response with its event list; kind "not_dict" is a response that is
\* not a dict, "no_component" one without the event list component.
CrabDoc(kind, events) == [kind |-> kind, events |-> events]

\* The two fixtures as Crab Sports lists them: a moneyline and a spread
\* market for the first, a moneyline market for the second.
GoodCrabEvents ==
    LET moneyline == CrabMarketRecord("MONEYLINE", << RawSelection("HOME", 196, NoneStr),
                                                      RawSelection("AWAY", 200, NoneStr) >>)
        spread    == CrabMarketRecord("SPREAD",
                                      << RawSelection("HOME", 191, SpreadLine),
                                         RawSelection("AWAY", 193, <<"1", ".", "5">>) >>)
    IN  << CrabEventRecord(Lakers, Celtics, Start_Jan1_1900, << moneyline, spread >>),
           CrabEventRecord(Celtics, Lakers, Start_Jan2_1900, << moneyline >>) >>

\* The document lists of Crab Sports.  Bad selections: not a dict; a label
\* that is not a string; a label that maps to no side; a price that does
\* not parse; a price of 0.95.  Bad markets: not a dict (or without a bet);
\* a label of no known market type; selections that are not a list.  Bad
\* events: not a dict; a team label that is not a string; no home team; a
\* sport that does not map; a start time that is not ISO 8601.  Lines: a
\* moneyline selection whose label ends in a number; spread and total
\* markets whose first selection has no line, no side, no price, is no dict
\* or has a label that is no string, and one without any line.
CrabDocLists ==
    LET event1         == GoodCrabEvents[1]
        event2         == GoodCrabEvents[2]
        moneyline      == event1.markets[1]
        spread         == event1.markets[2]
        home           == moneyline.selections[1]
        away           == moneyline.selections[2]
        bad_selections == { [home EXCEPT !.kind = "not_dict"],
                            [home EXCEPT !.kind = "raises"],
                            [away EXCEPT !.side = "None"],
                            [away EXCEPT !.price = NoPrice],
                            [away EXCEPT !.price = 95] }
        selections     == { << home, away >> }
                              \cup Insertions(<< home, away >>, bad_selections)
                              \cup { << b >> : b \in bad_selections }
        numbered       == << [home EXCEPT !.line = <<"7", "6">>], away >>
        first          == spread.selections[1]
        second         == spread.selections[2]
        no_line_first  == { [first EXCEPT !.line = NoneStr],
                            [first EXCEPT !.side = "None"],
                            [first EXCEPT !.price = NoPrice],
                            [first EXCEPT !.kind = "not_dict"],
                            [first EXCEPT !.kind = "raises"] }
        lined          == { << f, second >> : f \in no_line_first }
                              \cup { << [first EXCEPT !.line = NoneStr],
                                        [second EXCEPT !.line = NoneStr] >>,
                                     << [first EXCEPT !.side = "None"] >> }
        bad_markets    == { [spread EXCEPT !.kind = "not_dict"],
                            [spread EXCEPT !.market_type = "None"],
                            [spread EXCEPT !.selections_is_list = FALSE] }
        markets        == { << CrabMarketRecord("MONEYLINE", s) >> : s \in selections }
                              \cup { << CrabMarketRecord("MONEYLINE", s), spread >> :
                                       s \in selections }
                              \cup Insertions(<< moneyline, spread >>, bad_markets)
                              \cup { << b >> : b \in bad_markets }
                              \cup { << CrabMarketRecord("MONEYLINE", numbered),
                                        CrabMarketRecord(t, s) >> :
                                       t \in { "SPREAD", "TOTAL" }, s \in lined }
        bad_events     == { [event2 EXCEPT !.kind = "not_dict"],
                            [event2 EXCEPT !.kind = "raises"],
                            [event2 EXCEPT !.home = NoneStr],
                            [event2 EXCEPT !.sport = "None"],
                            [event2 EXCEPT !.start.iso = FALSE] }
        events         == { << [event1 EXCEPT !.markets = ms] >> : ms \in markets }
                              \cup { << [event1 EXCEPT !.markets = ms], event2 >> :
                                       ms \in markets }
                              \cup Insertions(<< event1, event2 >>, bad_events)
                              \cup { <<>> }
        bad_docs       == { CrabDoc("not_dict", <<>>), CrabDoc("no_component", <<>>) }
        two_docs       == << CrabDoc("dict", << event1 >>), CrabDoc("dict", << event2 >>) >>
    IN  { << CrabDoc("dict", es) >> : es \in events }
            \cup { << b >> : b \in bad_docs }
            \cup { <<>>, two_docs }
            \cup Insertions(two_docs, bad_docs)

SmallCrabDocLists ==
    { <<>>, << CrabDoc("not_dict", <<>>) >>, << CrabDoc("dict", << GoodCrabEvents[1] >>) >>,
      << CrabDoc("dict", GoodCrabEvents) >> }

\* A Pinnacle price: its American price, its points as _parse_decimal gives
\* them, its designation, and the time at which its Odds is built.
RawPrice(price, points, designation) ==
    [kind |-> "dict", price |-> price, points |-> points, designation |-> designation,
     stamp |-> 1]

PinnacleMarketRecord(matchupId, type, prices) ==
    [kind |-> "dict", matchupId |-> matchupId, type |-> type, period |-> 0, prices |-> prices]

\* A matchup: its id (0: neither parentId nor id), and what the adapter
\* reads from its league, participants and periods.
MatchupRecord(id, home, away, start_time) ==
    [kind |-> "dict", id |-> id, sport |-> "NBA", league |-> "NBA", home |-> home,
     away |-> away, start |-> RawStart(start_time)]

PinnacleDoc(kind, matchups, markets) ==
    [kind |-> kind, matchups |-> matchups, markets |-> markets]

\* The two fixtures as Pinnacle lists them, each in a document of its own:
\* a moneyline and a spread market for the first, a moneyline market for
\* the second.
GoodPinnacleDocs ==
    LET moneyline == << RawPrice(-110, NoneStr, "none"), RawPrice(150, NoneStr, "none") >>
        spread    == << RawPrice(-105, SpreadLine, "none"),
                        RawPrice(-115, <<"1", ".", "5">>, "none") >>
    IN  << PinnacleDoc("dict", << MatchupRecord(101, Lakers, Celtics, Start_Jan1_1905) >>,
                       << PinnacleMarketRecord(101, "MONEYLINE", moneyline),
                          PinnacleMarketRecord(101, "SPREAD", spread) >>),
           PinnacleDoc("dict", << MatchupRecord(102, Celtics, Lakers, Start_Jan2_1900) >>,
                       << PinnacleMarketRecord(102, "MONEYLINE", moneyline) >>) >>

\* The document lists of Pinnacle.  Moneyline prices: a price that is not a
\* dict, one price, three prices.  Spread prices: a home price without
\* points.  Bad market records: not a dict; a period other than the full
\* game; an unknown market type.  Bad matchups: not a dict; a league that
\* is null; no id; a sport that does not map; a start time that is not ISO
\* 8601.  bad_market_doc is a dict whose markets hold a record that is not
\* a dict.
PinnacleDocLists ==
    LET matchup1         == GoodPinnacleDocs[1].matchups[1]
        matchup2         == GoodPinnacleDocs[2].matchups[1]
        markets1         == GoodPinnacleDocs[1].markets
        markets2         == GoodPinnacleDocs[2].markets
        moneyline        == markets1[1].prices
        spread           == markets1[2].prices
        total_line       == <<"2", "1", "0", ".", "5">>
        total            == << RawPrice(-110, total_line, "over"),
                               RawPrice(-112, total_line, "under") >>
        moneyline_prices == { moneyline,
                              << [moneyline[1] EXCEPT !.kind = "not_dict"], moneyline[2] >>,
                              << moneyline[1], [moneyline[2] EXCEPT !.kind = "not_dict"] >>,
                              << moneyline[1] >>,
                              moneyline \o << moneyline[1] >> }
        spread_prices    == { spread, << [spread[1] EXCEPT !.points = NoneStr], spread[2] >> }
        bad_markets      == { [markets1[2] EXCEPT !.kind = "not_dict"],
                              [markets1[2] EXCEPT !.period = 1],
                              [markets1[2] EXCEPT !.type = "None"] }
        markets          == { << PinnacleMarketRecord(101, "MONEYLINE", ps) >> :
                                 ps \in moneyline_prices }
                                \cup { << markets1[1], PinnacleMarketRecord(101, "SPREAD", ps) >> :
                                         ps \in spread_prices }
                                \cup { << markets1[1],
                                          PinnacleMarketRecord(101, "TOTAL", total) >> }
                                \cup Insertions(markets1, bad_markets)
        bad_matchups     == { [matchup2 EXCEPT !.kind = "not_dict"],
                              [matchup2 EXCEPT !.kind = "raises"],
                              [matchup2 EXCEPT !.id = 0],
                              [matchup2 EXCEPT !.sport = "None"],
                              [matchup2 EXCEPT !.start.iso = FALSE] }
        not_dict         == PinnacleDoc("not_dict", <<>>, <<>>)
        bad_market_doc   == PinnacleDoc("dict", << matchup2 >>,
                                        << [markets2[1] EXCEPT !.kind = "not_dict"] >>)
        docs             == { PinnacleDoc("dict", << matchup1 >>, ms) : ms \in markets }
                                \cup { PinnacleDoc("dict", << matchup1, matchup2 >>,
                                                   ms \o markets2) : ms \in markets }
                                \cup { PinnacleDoc("dict", gs, markets1 \o markets2) :
                                         gs \in Insertions(<< matchup1, matchup2 >>,
                                                           bad_matchups) }
                                \cup { not_dict, PinnacleDoc("dict", <<>>, markets2),
                                       PinnacleDoc("dict", << matchup2 >>, <<>>) }
    IN  { << d >> : d \in docs }
            \cup { <<>>, GoodPinnacleDocs }
            \cup Insertions(GoodPinnacleDocs, { not_dict, bad_market_doc })

SmallPinnacleDocLists ==
    { <<>>, << PinnacleDoc("not_dict", <<>>, <<>>) >>, << GoodPinnacleDocs[1] >>,
      << PinnacleDoc("dict",
                     GoodPinnacleDocs[1].matchups \o GoodPinnacleDocs[2].matchups,
                     GoodPinnacleDocs[1].markets \o GoodPinnacleDocs[2].markets) >> }

BookEntry(bookmaker, raw_responses) == [key |-> bookmaker, val |-> raw_responses]

\* The dicts run_scrape_cycle hands to normalize: one bookmaker, or both in
\* either order of insertion.
RawData ==
    { << BookEntry("CRAB_SPORTS", c) >> : c \in CrabDocLists }
        \cup { << BookEntry("PINNACLE", p) >> : p \in PinnacleDocLists }
        \cup UNION { { << BookEntry("CRAB_SPORTS", cp[1]), BookEntry("PINNACLE", cp[2]) >>,
                       << BookEntry("PINNACLE", cp[2]), BookEntry("CRAB_SPORTS", cp[1]) >> } :
                     cp \in (CrabDocLists \X SmallPinnacleDocLists)
                              \cup (SmallCrabDocLists \X PinnacleDocLists) }

\* main: normalize(raw_data_for_norm), then save_normalized_data on its
\* result when there is one.
InitPipeline ==
    /\ MergeIdle
    /\ ScrapeIdle
    /\ id_pc = "idle" /\ id_args = <<>> /\ id_out = <<>>
    /\ raw_data_by_book \in RawData
    /\ book_idx = 1
    /\ all_normalized_games = <<>>
    /\ norm_pc = "loop"
    /\ norm_errors = <<>>

NextPipeline ==
    \/ SkipBook
    \/ NormalizeBook
    \/ BookRaises
    \/ NormalizeReturn
    \/ StartSave
    \/ NothingToSave
    \/ CanonicalGame
    \/ DuplicateGame
    \/ FilterOdds
    \/ SaveTeams
    \/ SaveGames
    \/ SaveMarkets
    \/ SaveOdds

SpecPipeline == InitPipeline /\ [][NextPipeline]_vars

(***************************************************************************)
(* Vocabulary of the statements about normalize.                           *)
(***************************************************************************)
\* normalize has just returned all_normalized_games; neither the list nor
\* the raw data changes afterwards.
Returned == norm_pc = "returned"

\* The bookmaker at position j of the dict: its documents made an adapter
\* raise; the games its documents give on their own.
ProviderRaised(j) ==
    /\ raw_data_by_book[j].val # <<>>
    /\ BookRaised(raw_data_by_book[j].key, raw_data_by_book[j].val)

ProviderGames(j) ==
    normalized_games_for_book(raw_data_by_book[j].key, raw_data_by_book[j].val)

(***************************************************************************)
(* C11.  Provider isolation: once normalize has returned, every bookmaker  *)
(* whose documents made an adapter raise has been logged by the except     *)
(* branch, and the result holds every game of every bookmaker whose        *)
(* documents did not, whether that bookmaker comes before or after one     *)
(* that did.                                                               *)
(***************************************************************************)
C11_ProviderIsolation ==
    Returned =>
        \A j \in 1..Len(raw_data_by_book) :
            IF ProviderRaised(j) THEN raw_data_by_book[j].key \in Range(norm_errors)
            ELSE Range(ProviderGames(j)) \subseteq Range(all_normalized_games)

\* normalize has returned games although the first of two bookmakers raised.
C11_Witness ==
    /\ Returned
    /\ Len(raw_data_by_book) = 2
    /\ ProviderRaised(1)
    /\ norm_errors = << raw_data_by_book[1].key >>
    /\ ProviderGames(2) # <<>>
    /\ all_normalized_games = ProviderGames(2)

(***************************************************************************)
(* C12.  As claimed, document isolation: once normalize has returned, the  *)
(* games each document gives on its own are in the result, also when a     *)
(* sibling document of the same bookmaker failed at the document level.    *)
(***************************************************************************)
C12_DocumentIsolation ==
    Returned =>
        \A j \in 1..Len(raw_data_by_book) :
            \A d \in 1..Len(raw_data_by_book[j].val) :
                Range(Adapter(raw_data_by_book[j].key, raw_data_by_book[j].val[d]).games)
                    \subseteq Range(all_normalized_games)

\* The records an adapter cannot use.
SelectionIsBad(raw_selection) == ~Processed(raw_selection) \/ raw_selection.price <= 100

CrabMarketIsBad(raw_market) ==
    \/ raw_market.kind # "dict"
    \/ raw_market.market_type = "None"
    \/ ~raw_market.selections_is_list

PinnacleMarketIsBad(raw_market) == raw_market.kind # "dict" \/ raw_market.type = "None"

PriceIsBad(price) == price.kind # "dict"

MatchupIsBad(raw_matchup) == ~EventIsUsable(raw_matchup) \/ raw_matchup.id = 0

EventIsBad(raw_event) == ~EventIsUsable(raw_event)

IsGoodSelection(s) == ~SelectionIsBad(s)

IsGoodCrabMarket(m) == ~CrabMarketIsBad(m)

IsGoodEvent(e) == ~EventIsBad(e)

IsGoodPrice(p) == ~PriceIsBad(p)

IsGoodPinnacleMarket(m) == ~PinnacleMarketIsBad(m)

IsGoodMatchup(g) == ~MatchupIsBad(g)

\* A document with its bad records taken out.
CleanCrabMarket(m) == [m EXCEPT !.selections = SelectSeq(@, IsGoodSelection)]

CleanCrabEvent(e) ==
    [e EXCEPT !.markets = [k \in 1..Len(SelectSeq(e.markets, IsGoodCrabMarket)) |->
                              CleanCrabMarket(SelectSeq(e.markets, IsGoodCrabMarket)[k])]]

CleanCrabDoc(doc) ==
    [doc EXCEPT !.events = [k \in 1..Len(SelectSeq(doc.events, IsGoodEvent)) |->
                               CleanCrabEvent(SelectSeq(doc.events, IsGoodEvent)[k])]]

CleanPinnacleMarket(m) == [m EXCEPT !.prices = SelectSeq(@, IsGoodPrice)]

CleanPinnacleDoc(doc) ==
    [doc EXCEPT !.matchups = SelectSeq(@, IsGoodMatchup),
                !.markets  = [k \in 1..Len(SelectSeq(doc.markets, IsGoodPinnacleMarket)) |->
                                 CleanPinnacleMarket(
                                     SelectSeq(doc.markets, IsGoodPinnacleMarket)[k])]]

CleanDoc(bookmaker, doc) ==
    IF bookmaker = "CRAB_SPORTS" THEN CleanCrabDoc(doc) ELSE CleanPinnacleDoc(doc)

\* normalize was called with one document of one bookmaker, a dict.
OneDocument ==
    /\ Len(raw_data_by_book) = 1
    /\ Len(raw_data_by_book[1].val) = 1
    /\ raw_data_by_book[1].val[1].kind = "dict"

(***************************************************************************)
(* C13.  As claimed, record isolation: for one document of either          *)
(* bookmaker, the adapter does not raise, and the games it gives are those *)
(* it gives for the document without its malformed and unmappable events,  *)
(* markets and outcomes.                                                   *)
(***************************************************************************)
C13_RecordIsolation ==
    (Returned /\ OneDocument) =>
        /\ norm_errors = <<>>
        /\ all_normalized_games =
              Adapter(raw_data_by_book[1].key,
                      CleanDoc(raw_data_by_book[1].key, raw_data_by_book[1].val[1])).games

\* The sides and prices of the selections of a market that parse and have a
\* price above 1.
ValidOutcomes(raw_market) ==
    { << s.side, s.price >> : s \in { t \in Range(raw_market.selections) : ~SelectionIsBad(t) } }

HasLowPrice(raw_market) ==
    \E k \in 1..Len(raw_market.selections) :
        Processed(raw_market.selections[k]) /\ raw_market.selections[k].price <= 100

OddsOf(market) == { << market.odds[k].side, market.odds[k].decimal_odds >> : k \in 1..Len(market.odds) }

(***************************************************************************)
(* C14.  As claimed, an invalid price skips only the outcome: for one      *)
(* Crab Sports document, a market of a usable event that has an outcome    *)
(* priced at 1.0 or less and valid sibling outcomes is emitted with        *)
(* exactly the valid siblings as its odds.                                 *)
(***************************************************************************)
C14_InvalidPriceSkipsOutcome ==
    (Returned /\ OneDocument /\ raw_data_by_book[1].key = "CRAB_SPORTS") =>
        \A e \in 1..Len(raw_data_by_book[1].val[1].events) :
            LET raw_event == raw_data_by_book[1].val[1].events[e]
            IN  EventIsUsable(raw_event) =>
                  \A m \in 1..Len(raw_event.markets) :
                      LET raw_market == raw_event.markets[m]
                      IN  ( /\ ~CrabMarketIsBad(raw_market)
                            /\ HasLowPrice(raw_market)
                            /\ ValidOutcomes(raw_market) # {} )
                          => \E g \in 1..Len(all_normalized_games) :
                                \E k \in 1..Len(all_normalized_games[g].markets) :
                                    /\ all_normalized_games[g].markets[k].market_type
                                          = raw_market.market_type
                                    /\ OddsOf(all_normalized_games[g].markets[k])
                                          = ValidOutcomes(raw_market)

(***************************************************************************)
(* C15.  Every Game in normalize's list has at least one Market, and every *)
(* Market of such a Game has at least one Odds.                            *)
(***************************************************************************)
C15_NonEmptyOutput ==
    \A g \in 1..Len(all_normalized_games) :
        /\ all_normalized_games[g].markets # <<>>
        /\ \A k \in 1..Len(all_normalized_games[g].markets) :
              all_normalized_games[g].markets[k].odds # <<>>

\* normalize has returned one game for a Crab Sports document of two usable
\* events: the other event had a market, and no market with an outcome.
C15_Witness ==
    /\ Returned
    /\ OneDocument
    /\ raw_data_by_book[1].key = "CRAB_SPORTS"
    /\ Len(raw_data_by_book[1].val[1].events) = 2
    /\ \A e \in 1..2 : /\ EventIsUsable(raw_data_by_book[1].val[1].events[e])
                       /\ raw_data_by_book[1].val[1].events[e].markets # <<>>
    /\ norm_errors = <<>>
    /\ Len(all_normalized_games) = 1

\* Some selection of the raw data parses and is priced at 1.0 or less.
LowPriceInRawData ==
    \E j \in 1..Len(raw_data_by_book) :
        /\ raw_data_by_book[j].key = "CRAB_SPORTS"
        /\ \E d \in 1..Len(raw_data_by_book[j].val) :
              \E e \in 1..Len(raw_data_by_book[j].val[d].events) :
                  \E m \in 1..Len(raw_data_by_book[j].val[d].events[e].markets) :
                      HasLowPrice(raw_data_by_book[j].val[d].events[e].markets[m])

(***************************************************************************)
(* C16.  Every Odds of the latest-odds list that save_normalized_data      *)
(* hands to save_odds, for the games normalize returned, has decimal_odds  *)
(* strictly greater than 1 (prices are in hundredths).                     *)
(***************************************************************************)
C16_SavedOddsAboveOne ==
    \A k \in 1..Len(unique_latest_odds) : unique_latest_odds[k].decimal_odds > 100

\* save_odds is about to be handed odds of raw data that held an outcome
\* priced at 0.95.
C16_Witness ==
    /\ pc = "save_odds"
    /\ norm_pc = "saving"
    /\ unique_latest_odds # <<>>
    /\ LowPriceInRawData

(***************************************************************************)
(* Vocabulary of the statements about what the merge leaves alone.         *)
(***************************************************************************)
\* The positions of the games that were merged into an earlier game.
DuplicatePositions ==
    { i \in 1..Len(games) :
        /\ i < idx
        /\ ~FuzzyKeyMissing(games[i])
        /\ ~FuzzyKeyRaises(games[i])
        /\ HasKey(canonical_games, get_fuzzy_game_key(games[i]))
        /\ Lookup(canonical_games, get_fuzzy_game_key(games[i])) # i }

CanonicalPositions == Range(Values(canonical_games))

\* A market without its game_id, a game without its markets.
WithoutGameId(market) == [market EXCEPT !.game_id = <<>>]

WithoutMarkets(game) == [game EXCEPT !.markets = <<>>]

SaveOrder == << "teams", "games", "markets", "odds" >>

(***************************************************************************)
(* C25.  Persistence order and stop-on-failure: the save calls made are a  *)
(* prefix of teams, games, markets, odds; every call but the last one made *)
(* returned True; once a call has returned False the function has returned *)
(* False; the function has returned True exactly when all four calls       *)
(* returned True or the input list was empty, and for an empty input list  *)
(* no call is made.                                                        *)
(***************************************************************************)
C25_SaveOrderStopOnFailure ==
    /\ Len(upserts) <= Len(SaveOrder)
    /\ \A k \in 1..Len(upserts) :
          /\ upserts[k].table = SaveOrder[k]
          /\ k < Len(upserts) => upserts[k].ok
    /\ (\E k \in 1..Len(upserts) : ~upserts[k].ok) <=> result = "False"
    /\ result = "False" => pc = "done"
    /\ result = "True" <=>
          /\ pc = "done"
          /\ \/ games_at_call = <<>>
             \/ Len(upserts) = Len(SaveOrder) /\ \A k \in 1..Len(upserts) : upserts[k].ok
    /\ games_at_call = <<>> => upserts = <<>>

\* The function has returned False at the third table: the teams and the
\* games were written, the upsert of the markets failed, and the odds were
\* not attempted.
C25_Witness ==
    /\ pc = "done"
    /\ result = "False"
    /\ Len(upserts) = 3
    /\ upserts[1].sent /\ upserts[2].sent /\ upserts[3].sent
    /\ ~upserts[3].ok
    /\ unique_latest_odds # <<>>

\* Every Odds of the input carries the market_id of the market that holds it.
OddsNameTheirMarket ==
    \A i \in 1..Len(games_at_call) :
        \A k \in 1..Len(games_at_call[i].markets) :
            \A o \in Range(games_at_call[i].markets[k].odds) :
                o.market_id = games_at_call[i].markets[k].market_id

(***************************************************************************)
(* C26.  Odds-to-market referential integrity: provided every input Odds   *)
(* has the market_id of the market that owns it, once the merge is done    *)
(* every record of the latest-odds list has the market_id of some market   *)
(* of the deduplicated market list.                                        *)
(***************************************************************************)
C26_OddsNameSavedMarket ==
    (Merged /\ OddsNameTheirMarket) =>
        \A k \in 1..Len(unique_latest_odds) :
            \E j \in 1..Len(MarketList) :
                MarketList[j].market_id = unique_latest_odds[k].market_id

\* The merge is done for a game and a duplicate of it: the latest-odds list
\* holds odds of a market of the canonical game and odds of a market that
\* only the duplicate brought.
C26_Witness ==
    /\ Merged
    /\ Len(games) = 2
    /\ games_to_save = << 1 >>
    /\ OddsNameTheirMarket
    /\ \E o \in Range(unique_latest_odds) :
          \E k \in 1..Len(games[1].markets) : games[1].markets[k].market_id = o.market_id
    /\ \E o \in Range(unique_latest_odds) :
          /\ \E k \in 1..Len(games[2].markets) : games[2].markets[k].market_id = o.market_id
          /\ \A k \in 1..Len(games[1].markets) : games[1].markets[k].market_id # o.market_id

(***************************************************************************)
(* The scrape cycle: main and run_scrape_cycle (main.py), BaseScraper and  *)
(* CrabSportsScraper (src/scrapers).  The run_scraper coroutines of the    *)
(* gather run interleaved; a coroutine gives way at each await.  What      *)
(* client.request gives is a reply: a response with its status, or the     *)
(* exception it raised.                                                    *)
(***************************************************************************)
target_sports == << "NBA", "MLB", "NHL" >>

\* A set of statuses that takes 404 for a status to retry on.
RETRYABLE_STATUS_CODES_With404 == {404, 408, 429, 500, 502, 503, 504}

RETRYABLE_STATUS_CODES == {408, 429, 500, 502, 503, 504}

stop_after_attempt == 4

\* What leaves the body of _make_request for a reply: "response" when the
\* body returns the response, else the class of the exception.  The try
\* raises AuthenticationError, RateLimitError, HTTPStatusError (from
\* raise_for_status) or what client.request raised; the except clauses are
\* tried in order, and "except Exception" takes every exception that is
\* neither an HTTPStatusError nor a RequestError.
_make_request_body(reply) ==
    LET raised ==
            IF reply.kind # "response" THEN reply.kind
            ELSE IF reply.status \in {401, 403} THEN "AuthenticationError"
            ELSE IF reply.status = 429 THEN "RateLimitError"
            ELSE IF reply.status >= 400 THEN "HTTPStatusError"
            ELSE "response"
    IN  IF raised = "response" THEN "response"
        ELSE IF raised = "HTTPStatusError"
        THEN IF reply.status \in RETRYABLE_STATUS_CODES THEN "HTTPStatusError"
             ELSE "ScraperError"
        ELSE IF raised = "RequestError" THEN "RequestError"
        ELSE "ScraperError"

\* The @retry decorator of _make_request: another attempt is made when the
\* exception is of a retried type and fewer than stop_after_attempt attempts
\* have been made; else the exception is raised to the caller.
ShouldRetry(exception, attempt_number) ==
    /\ exception \in {"RequestError", "HTTPStatusError", "RateLimitError"}
    /\ attempt_number < stop_after_attempt

InGather(i) == cycle_pc = "gather" /\ i \in 1..Len(tasks)

\* main up to the gather of run_scrape_cycle: initialize_supabase gives no
\* client and main returns; or the constructor of a scraper raises
\* ScraperError, which main's except takes; or the coroutines are created,
\* one per scraper of the list.  The list is [CrabSportsScraper()], alone or
\* with a scraper of another subclass of BaseScraper (bookmaker UNKNOWN), of
\* which only the signature of fetch_odds is known.
StartCycle ==
    /\ cycle_pc = "start"
    /\ \/ /\ cycle_pc' = "exit"
          /\ UNCHANGED << client, tasks >>
       \/ /\ cycle_pc' = "raised"
          /\ client' = TRUE
          /\ UNCHANGED tasks
       \/ \E scrapers \in { << "CRAB_SPORTS" >>, << "UNKNOWN" >>,
                            << "CRAB_SPORTS", "UNKNOWN" >>, << "UNKNOWN", "CRAB_SPORTS" >> } :
             /\ tasks' = [i \in 1..Len(scrapers) |->
                             [bookmaker    |-> scrapers[i],
                              pc           |-> "fetch",
                              sport_idx    |-> 1,
                              all_raw_data |-> <<>>,
                              attempts     |-> 0,
                              last         |-> [kind |-> "none", status |-> 0],
                              result       |-> "none",
                              outcome      |-> "running",
                              closes       |-> 0]]
             /\ cycle_pc' = "gather"
             /\ client' = TRUE
    /\ UNCHANGED << games, pc, idx, canonical_games, all_teams, all_markets, all_odds_raw,
                    processed_market_ids_in_canonical, merged_market_count,
                    discarded_game_count, games_to_save, unique_latest_odds, upserts,
                    result, games_at_call, run, first_run, id_vars, norm_vars,
                    all_raw_results >>

\* run_scraper when fetch_odds ends: the list it returned is stored under
\* the scraper's bookmaker; an exception is logged by the except clause of
\* its class; either way the finally clause is next.
EndFetch(i, outcome, raw_data_list) ==
    /\ tasks' = [tasks EXCEPT ![i].pc = "closing", ![i].outcome = outcome]
    /\ all_raw_results' = IF outcome = "returned"
                          THEN Put(all_raw_results, tasks[i].bookmaker, raw_data_list)
                          ELSE all_raw_results
    /\ UNCHANGED << cycle_pc, merge_vars, id_vars, norm_vars >>

\* CrabSportsScraper.fetch_odds at "for sport in sports": _make_request is
\* called for the next sport.
SendRequest(i) ==
    /\ InGather(i)
    /\ tasks[i].bookmaker = "CRAB_SPORTS"
    /\ tasks[i].pc = "fetch"
    /\ tasks[i].sport_idx <= Len(target_sports)
    /\ tasks' = [tasks EXCEPT ![i].pc = "request", ![i].attempts = 0,
                              ![i].last = [kind |-> "none", status |-> 0],
                              ![i].result = "pending"]
    /\ UNCHANGED << cycle_pc, all_raw_results, merge_vars, id_vars, norm_vars >>

\* One attempt of _make_request: the reply of client.request, what the body
\* makes of it, and what the retry decorator does with that.
_make_request(i) ==
    /\ InGather(i)
    /\ tasks[i].pc = "request"
    /\ tasks[i].result = "pending"
    /\ \E reply \in { [kind |-> "response", status |-> st] :
                        st \in {200, 401, 403, 404, 408, 429, 500, 502, 503, 504} }
                    \cup { [kind |-> k, status |-> 0] : k \in {"RequestError", "TypeError"} } :
          LET exception      == _make_request_body(reply)
              attempt_number == tasks[i].attempts + 1
          IN  tasks' = [tasks EXCEPT
                           ![i].attempts = attempt_number,
                           ![i].last = reply,
                           ![i].result = IF ShouldRetry(exception, attempt_number)
                                         THEN "pending" ELSE exception]
    /\ UNCHANGED << cycle_pc, all_raw_results, merge_vars, id_vars, norm_vars >>

\* CrabSportsScraper.fetch_odds when _make_request has ended: the body of a
\* response is appended when it is truthy (a body that is no JSON raises and
\* is logged); AuthenticationError is raised again and ends fetch_odds; any
\* other exception is logged and the loop continues with the next sport.
HandleResult(i) ==
    /\ InGather(i)
    /\ tasks[i].pc = "request"
    /\ tasks[i].result \notin {"pending", "none"}
    /\ IF tasks[i].result = "AuthenticationError"
       THEN EndFetch(i, "AuthenticationError", <<>>)
       ELSE /\ \E raw_data \in (IF tasks[i].result = "response"
                                THEN {"falsy", "truthy", "no_json"} ELSE {"none"}) :
                  tasks' = [tasks EXCEPT
                               ![i].pc = "fetch",
                               ![i].sport_idx = @ + 1,
                               ![i].all_raw_data =
                                   IF raw_data = "truthy"
                                   THEN Append(@, CrabDoc("dict", GoodCrabEvents)) ELSE @]
            /\ UNCHANGED << cycle_pc, all_raw_results, merge_vars, id_vars, norm_vars >>

\* CrabSportsScraper.fetch_odds after the last sport: return all_raw_data.
FetchReturn(i) ==
    /\ InGather(i)
    /\ tasks[i].bookmaker = "CRAB_SPORTS"
    /\ tasks[i].pc = "fetch"
    /\ tasks[i].sport_idx > Len(target_sports)
    /\ EndFetch(i, "returned", tasks[i].all_raw_data)

\* fetch_odds of the other scraper: it returns a list or raises.
OtherFetch(i) ==
    /\ InGather(i)
    /\ tasks[i].bookmaker = "UNKNOWN"
    /\ tasks[i].pc = "fetch"
    /\ \E outcome \in {"returned", "AuthenticationError", "ScraperError", "Exception"} :
          \E raw_data_list \in (IF outcome = "returned"
                                THEN { <<>>, << CrabDoc("not_dict", <<>>) >> } ELSE { <<>> }) :
              EndFetch(i, outcome, raw_data_list)

\* A run_scraper that returns without closing its scraper.
close_Never(i) ==
    /\ InGather(i)
    /\ tasks[i].pc = "closing"
    /\ tasks' = [tasks EXCEPT ![i].pc = "done"]
    /\ UNCHANGED << cycle_pc, all_raw_results, merge_vars, id_vars, norm_vars >>

\* finally: await scraper.close(); run_scraper is done when it returns.
close(i) ==
    /\ InGather(i)
    /\ tasks[i].pc = "closing"
    /\ tasks' = [tasks EXCEPT ![i].pc = "done", ![i].closes = @ + 1]
    /\ UNCHANGED << cycle_pc, all_raw_results, merge_vars, id_vars, norm_vars >>

\* await asyncio.gather(...) ends when every run_scraper is done;
\* run_scrape_cycle returns all_raw_results.
GatherReturn ==
    /\ cycle_pc = "gather"
    /\ \A i \in 1..Len(tasks) : tasks[i].pc = "done"
    /\ cycle_pc' = "returned"
    /\ UNCHANGED << tasks, all_raw_results, merge_vars, id_vars, norm_vars >>

\* A main that calls normalize on the dict while the gather is under way.
CallNormalize_Early ==
    /\ cycle_pc = "gather"
    /\ all_raw_results # <<>>
    /\ cycle_pc' = "normalize"
    /\ raw_data_by_book' = all_raw_results
    /\ norm_pc' = "loop"
    /\ UNCHANGED << book_idx, all_normalized_games, norm_errors, tasks, all_raw_results,
                    merge_vars, id_vars >>

\* main after run_scrape_cycle: "if not raw_data_for_norm: return", else
\* normalizer.normalize(raw_data_for_norm).
CallNormalize ==
    /\ cycle_pc = "returned"
    /\ IF all_raw_results = <<>>
       THEN /\ cycle_pc' = "exit"
            /\ UNCHANGED << raw_data_by_book, norm_pc >>
       ELSE /\ cycle_pc' = "normalize"
            /\ raw_data_by_book' = all_raw_results
            /\ norm_pc' = "loop"
    /\ UNCHANGED << book_idx, all_normalized_games, norm_errors, tasks, all_raw_results,
                    merge_vars, id_vars >>

InitScrape ==
    /\ MergeIdle
    /\ NormalizeIdle
    /\ id_pc = "idle" /\ id_args = <<>> /\ id_out = <<>>
    /\ cycle_pc = "start"
    /\ tasks = <<>>
    /\ all_raw_results = <<>>

NextScrape ==
    \/ StartCycle
    \/ \E i \in 1..Len(tasks) : SendRequest(i)
    \/ \E i \in 1..Len(tasks) : _make_request(i)
    \/ \E i \in 1..Len(tasks) : HandleResult(i)
    \/ \E i \in 1..Len(tasks) : FetchReturn(i)
    \/ \E i \in 1..Len(tasks) : OtherFetch(i)
    \/ \E i \in 1..Len(tasks) : close(i)
    \/ GatherReturn
    \/ CallNormalize

\* The event loop runs every coroutine that can go on, and every request
\* ends: the client has a timeout.
SpecScrape == InitScrape /\ [][NextScrape]_vars /\ WF_vars(NextScrape)

(***************************************************************************)
(* Vocabulary of the statements about the scrape cycle.                    *)
(***************************************************************************)
\* fetch_odds of the scraper at position i is still running.
FetchRunning(i) == tasks[i].outcome = "running"

FetchReturned(i) == tasks[i].outcome = "returned"

(***************************************************************************)
(* C21.  Normalization starts only after every fetch of the cycle has      *)
(* finished: when main has called normalize, no fetch_odds of the cycle is *)
(* still running, and the argument of normalize is the dict the cycle      *)
(* built: an entry for each bookmaker whose fetch_odds returned, holding   *)
(* the list it returned.                                                   *)
(***************************************************************************)
C21_NormalizeAfterFetches ==
    norm_pc # "idle" =>
        /\ \A i \in 1..Len(tasks) : ~FetchRunning(i)
        /\ raw_data_by_book = all_raw_results
        /\ \A j \in 1..Len(raw_data_by_book) :
              \E i \in 1..Len(tasks) :
                  /\ tasks[i].bookmaker = raw_data_by_book[j].key
                  /\ FetchReturned(i)
                  /\ tasks[i].bookmaker = "CRAB_SPORTS"
                        => raw_data_by_book[j].val = tasks[i].all_raw_data

\* normalize has been called on the documents of two scrapers, of which
\* the second of the list finished first; Crab Sports gave two documents.
C21_Witness ==
    /\ norm_pc = "loop"
    /\ Len(tasks) = 2
    /\ Len(raw_data_by_book) = 2
    /\ raw_data_by_book[1].key = tasks[2].bookmaker
    /\ raw_data_by_book[2].key = "CRAB_SPORTS"
    /\ Len(raw_data_by_book[2].val) = 2

\* The last reply to the request of the scraper at position i.
LastStatus(i) == IF tasks[i].last.kind = "response" THEN tasks[i].last.status ELSE 0

TransportError(i) == tasks[i].last.kind = "RequestError"

(***************************************************************************)
(* C27.  As claimed, authentication failures are signalled and not         *)
(* retried: after a response with status 401 or 403 _make_request has      *)
(* ended with an AuthenticationError; fetch_odds of Crab Sports does not   *)
(* go on to the next sport; and once it has ended it has raised the        *)
(* AuthenticationError and the cycle's dict has no entry for the           *)
(* bookmaker.                                                              *)
(***************************************************************************)
C27_AuthFailureSignalled ==
    \A i \in 1..Len(tasks) :
        LastStatus(i) \in {401, 403} =>
            /\ tasks[i].result = "AuthenticationError"
            /\ tasks[i].pc # "fetch"
            /\ tasks[i].pc \in {"closing", "done"} =>
                  /\ tasks[i].outcome = "AuthenticationError"
                  /\ ~HasKey(all_raw_results, tasks[i].bookmaker)

(***************************************************************************)
(* C28.  Bounded retry of transient failures: a call of _make_request      *)
(* makes at most 4 attempts; after a transport error or a response with    *)
(* status 408, 500, 502, 503 or 504 the call goes on to another attempt    *)
(* while fewer than 4 have been made, and it goes on only then; a          *)
(* response with status 200 ends the call with the response; a response    *)
(* with status 404 ends the call with a ScraperError.                      *)
(***************************************************************************)
C28_BoundedRetry ==
    \A i \in 1..Len(tasks) :
        /\ tasks[i].attempts <= 4
        /\ tasks[i].result = "pending" => tasks[i].attempts < 4
        /\ ( /\ TransportError(i) \/ LastStatus(i) \in {408, 500, 502, 503, 504}
             /\ tasks[i].attempts < 4 )
              => tasks[i].result = "pending"
        /\ LastStatus(i) = 200 => tasks[i].result = "response"
        /\ LastStatus(i) = 404 => tasks[i].result = "ScraperError"

\* The call for the second sport has ended at its fourth attempt, answered
\* with status 503 after three replies that were retried; the call for the
\* first sport had ended with a response.
C28_Witness ==
    \E i \in 1..Len(tasks) :
        /\ tasks[i].sport_idx = 2
        /\ Len(tasks[i].all_raw_data) = 1
        /\ tasks[i].attempts = 4
        /\ LastStatus(i) = 503
        /\ tasks[i].result = "HTTPStatusError"

(***************************************************************************)
(* C29.  As claimed, rate limiting triggers a retry: after a response with *)
(* status 429 the call of _make_request goes on to another attempt, as     *)
(* long as fewer than 4 attempts have been made.                           *)
(***************************************************************************)
C29_RateLimitRetried ==
    \A i \in 1..Len(tasks) :
        (LastStatus(i) = 429 /\ tasks[i].attempts < 4) => tasks[i].result = "pending"

\* run_scrape_cycle has returned to main.
CycleReturned == cycle_pc \in {"returned", "normalize"} \/ (cycle_pc = "exit" /\ tasks # <<>>)

\* close() is called at most once per scraper, and not while its fetch_odds
\* is running; when the cycle has returned every run_scraper is done and
\* every scraper has been closed; the dict has an entry for a bookmaker
\* exactly when the fetch_odds of its scraper returned.
CleanupInOrder ==
    /\ \A i \in 1..Len(tasks) :
          /\ tasks[i].closes <= 1
          /\ tasks[i].closes = 1 => ~FetchRunning(i)
          /\ HasKey(all_raw_results, tasks[i].bookmaker) <=> FetchReturned(i)
    /\ \A j \in 1..Len(all_raw_results) :
          \E i \in 1..Len(tasks) : tasks[i].bookmaker = all_raw_results[j].key
    /\ CycleReturned =>
          \A i \in 1..Len(tasks) : tasks[i].pc = "done" /\ tasks[i].closes = 1

(***************************************************************************)
(* C30.  Scrape cycle cleanup under concurrency: for every interleaving of *)
(* the scrapers and every outcome of each fetch_odds, close() is called    *)
(* exactly once per scraper, after its fetch_odds has ended; the cycle     *)
(* returns only when every scraper has finished; the returned dict has an  *)
(* entry for a bookmaker exactly when its fetch_odds returned; and a cycle *)
(* whose coroutines have started does return, with every scraper closed.   *)
(***************************************************************************)
C30_CycleCleanup ==
    /\ []CleanupInOrder
    /\ (cycle_pc = "gather") ~>
          (CycleReturned /\ \A i \in 1..Len(tasks) : tasks[i].closes = 1)

\* The cycle has returned for two scrapers: fetch_odds of the first raised
\* AuthenticationError, that of Crab Sports returned after a request that
\* failed; both are closed and the dict holds the entry of Crab Sports.
C30_Witness ==
    /\ cycle_pc = "returned"
    /\ Len(tasks) = 2
    /\ tasks[1].outcome = "AuthenticationError"
    /\ tasks[2].outcome = "returned"
    /\ tasks[2].result = "ScraperError"
    /\ tasks[1].closes = 1 /\ tasks[2].closes = 1
    /\ Len(all_raw_results) = 1
    /\ all_raw_results[1].key = "CRAB_SPORTS"

\* The raw events of Crab Sports in the dict handed to normalize.
CrabRawEvents ==
    UNION { UNION { Range(raw_response.events) : raw_response \in Range(entry.val) } :
              entry \in { e \in Range(raw_data_by_book) : e.key = "CRAB_SPORTS" } }

\* The position of the first selection, in selection order, that is a dict
\* with a label that maps to a side, a price that parses and a label from
\* which a line is read; 0 when there is none.
FirstWithLine(raw_market) ==
    LET ks == { k \in 1..Len(raw_market.selections) :
                  /\ raw_market.selections[k].kind = "dict"
                  /\ raw_market.selections[k].side # "None"
                  /\ raw_market.selections[k].price # NoPrice
                  /\ raw_market.selections[k].line # NoneStr }
    IN  IF ks = {} THEN 0 ELSE CHOOSE k \in ks : \A h \in ks : k <= h

LineAsClaimed(raw_market) ==
    IF raw_market.market_type \in { "SPREAD", "TOTAL" } /\ FirstWithLine(raw_market) # 0
    THEN raw_market.selections[FirstWithLine(raw_market)].line
    ELSE NoneStr

\* The raw markets of the event of a Crab Sports game from which one of
\* its markets was built: a usable market container of that type.
RawMarketsOf(game, market) ==
    { raw_market \in UNION { Range(raw_event.markets) :
                               raw_event \in { e \in CrabRawEvents :
                                                 /\ EventIsUsable(e)
                                                 /\ GameIdOf(e) = game.game_id } } :
        /\ ~CrabMarketIsBad(raw_market)
        /\ raw_market.market_type = market.market_type }

CrabGames ==
    { g \in 1..Len(all_normalized_games) : all_normalized_games[g].bookmaker = "CRAB_SPORTS" }

(***************************************************************************)
(* C22.  Market-level line in the Crab Sports adapter: every market of a   *)
(* Crab Sports game in normalize's list comes from a raw market of its     *)
(* type in the game's event, and its line is, for SPREAD and TOTAL, the    *)
(* line of the first selection in selection order with a mappable side, a  *)
(* parseable price and a parseable line (absent when there is none), and   *)
(* for MONEYLINE absent, also when a label ends in a number.  Stated of    *)
(* the list as normalize returns it, before save_normalized_data starts.   *)
(***************************************************************************)
C22_CrabMarketLine ==
    (Returned /\ pc = "off") =>
        \A g \in CrabGames :
            \A k \in 1..Len(all_normalized_games[g].markets) :
                LET market == all_normalized_games[g].markets[k]
                    raws   == RawMarketsOf(all_normalized_games[g], market)
                IN  /\ raws # {}
                    /\ \A raw_market \in raws : market.line = LineAsClaimed(raw_market)
                    /\ market.market_type = "MONEYLINE" => market.line = NoneStr

\* normalize has returned a Crab Sports game with a moneyline market, one of
\* whose selections has a label ending in a number, and a spread or total
\* market that took its line from its second selection, the first having
\* none.
C22_Witness ==
    /\ Returned /\ pc = "off"
    /\ \E g \in CrabGames :
          LET markets == all_normalized_games[g].markets
          IN  /\ Len(markets) = 2
              /\ markets[1].market_type = "MONEYLINE"
              /\ markets[1].line = NoneStr
              /\ \E raw_market \in RawMarketsOf(all_normalized_games[g], markets[1]) :
                    \E s \in Range(raw_market.selections) :
                        Processed(s) /\ s.line # NoneStr
              /\ markets[2].market_type \in { "SPREAD", "TOTAL" }
              /\ markets[2].line # NoneStr
              /\ \E raw_market \in RawMarketsOf(all_normalized_games[g], markets[2]) :
                    /\ Processed(raw_market.selections[1])
                    /\ raw_market.selections[1].line = NoneStr
                    /\ FirstWithLine(raw_market) = 2

\* |x| of an integer.
Magnitude(x) == IF x < 0 THEN 0 - x ELSE x

\* The decimal odds the spec's formula gives for American odds a differ from
\* d (in hundredths) by at most 0.01.  For positive a the formula gives
\* a + 100 hundredths; for negative a it gives 10000/|a| + 100 hundredths,
\* and |10000/|a| + 100 - d| <= 1 is written without the division.
RecoversWithinOneHundredth(a, d) ==
    IF a > 0 THEN Magnitude(a + 100 - d) <= 1
    ELSE a < 0 /\ Magnitude(10000 - (d - 100) * Magnitude(a)) <= Magnitude(a)

(***************************************************************************)
(* C23.  Price round trip: for every decimal odds d above 1 with two       *)
(* decimal places, up to MaxDecimalOdds, the American odds that            *)
(* Odds.model_post_init derives, converted back with a/100 + 1 for         *)
(* positive a and 100/|a| + 1 for negative a, are within 0.01 of d, and    *)
(* they are never strictly between -100 and 100.                           *)
(***************************************************************************)
C23_PriceRoundTrip ==
    (id_pc = "american_odds" /\ id_out # <<>>) =>
        /\ RecoversWithinOneHundredth(id_out[1], id_args[1])
        /\ ~(0 - 100 < id_out[1] /\ id_out[1] < 100)

\* Odds(decimal_odds=1.91) has been built: its american_odds is -109, the
\* quotient -109.89 without its fraction, which converts back to 1.9174.
C23_Witness ==
    /\ id_pc = "american_odds"
    /\ id_args = << 191 >>
    /\ id_out = << 0 - 109 >>

====
